---------------------------- MODULE Spec2Model ----------------------------
(***************************************************************************)
(* Model of the client-side data-acquisition pipeline of the sentiment     *)
(* dashboard (src/sentient/src/App.js): the query builder and the          *)
(* reconciler inside fetchPosts, the retry engine enhancedFetch, the       *)
(* auto-refresh, the detail view, and the session of AuthContext.js.       *)
(*                                                                         *)
(* The specifications that share the module:                               *)
(*   Spec         the App component: user events, fetchPosts calls in      *)
(*                flight, the mount/update effect that re-issues a fetch,  *)
(*                and the state the responses are reconciled into;         *)
(*   SpecResort   the App with the clicks on the column headers as well;   *)
(*   SpecPaging   the App with load-more, scroll and submit events and     *)
(*                full pages as answers;                                   *)
(*   SpecRefresh  the App with the auto-refresh option, the ticks of the   *)
(*                intervals it sets and the unmount;                       *)
(*   SpecVisible  the App with the auto-refresh option, the ticks and the  *)
(*                visibilitychange event;                                  *)
(*   SpecComments the post detail view and its comment fetches;            *)
(*   SpecAuth     the session kept by the AuthProvider and the header      *)
(*                that enhancedFetch attaches;                             *)
(*   SpecFetch    one call of enhancedFetch against every sequence of      *)
(*                server answers, with the log of attempts and waits;      *)
(*   SpecQuery    the request built by fetchPosts, for inputs drawn from   *)
(*                bounded sets of filters, search options and sort config; *)
(*   SpecSort     one requestSort call on a live result.                   *)
(* The other specifications are described where they are defined.          *)
(***************************************************************************)
EXTENDS Integers, Sequences, FiniteSets, TLC

(***************************************************************************)
(* Bounds of the model (not program constants).                            *)
(***************************************************************************)
\* fetchPosts calls issued in one behaviour of Spec
MaxCalls == 4
\* fetchPosts calls issued in one behaviour of SpecResort
MaxResortCalls == 3
\* fetchPosts calls issued in one behaviour of SpecPaging
MaxPagingCalls == 8
\* fetchPosts calls issued in one behaviour of SpecRefresh
MaxRefreshCalls == 9
\* fetchPosts calls issued in one behaviour of SpecVisible
MaxVisibleCalls == 8
\* length of the collections sorted in SpecSort
MaxSortLen == 3
\* fetchComments calls issued in one behaviour of SpecComments
MaxCommentCalls == 3
\* login calls made in one behaviour of SpecAuth
MaxLogins == 2
\* calls of the authenticated operations in one behaviour of SpecAccount
MaxOperations == 3
\* characters of a value typed into an input of the filter form
MaxInputLen == 2
\* posts of a collection that the projections are computed from
MaxVizLen == 2
\* fetchPosts calls issued in one behaviour of SpecPages
MaxPageCalls == 4
\* the largest retries argument of the enhancedFetch calls of SpecRetries
MaxRetries == 4

(***************************************************************************)
(* Program constants.                                                      *)
(***************************************************************************)
\* enhancedFetch(url, options = {}, retries = 3, timeout = 10000)
DefaultRetries == 3
\* waitTime = retryAfter ? parseInt(retryAfter) * 1000 : 5000
DefaultRateLimitWait == 5000
\* 1000 * Math.pow(2, attempt)
BackoffBase == 1000
\* endTs + 86400
SecondsPerDay == 86400

VARIABLES
  \* ---- App component state (useState hooks of App) ----
  posts,          \* posts: the collection, a sequence of post ids
  filteredPosts,  \* filteredPosts: the collection as displayed
  loading,        \* loading
  loadingMore,    \* loadingMore
  error,          \* error: Null or [message, details]
  isLiveSearch,   \* isLiveSearch
  hasMore,        \* hasMore
  currentPage,    \* currentPage
  postsPerPage,   \* postsPerPage
  filters,        \* filters
  searchOptions,  \* searchOptions
  sortConfig,     \* sortConfig
  autoRefreshTimer, \* autoRefreshTimer: NoTimer (null) or the id setInterval returned
  \* ---- the callbacks of the last render, the page and its timers ----
  setup,          \* what the setupAutoRefresh of the last render captured
  fetchFilters,   \* the filters that the fetchPosts of the last render captured
  timers,         \* the intervals that are set, each with what its callback captured
  timersMade,     \* number of setInterval calls made so far (the interval ids)
  visible,        \* document.visibilityState === 'visible'
  mounted,        \* whether the App is mounted
  \* ---- fetchPosts invocations suspended at `await enhancedFetch` ----
  calls,          \* set of call records, each with the values its closure captured
  issued,         \* number of fetchPosts calls made so far (the order of issue)
  lastEvent,      \* what the last step did: which call ended, and how
  newestApplied,  \* the highest issue number among the calls whose response was applied
  appended,       \* the Append calls applied since the last applied Reset
  budget,         \* the number of fetchPosts calls the behaviour may issue
  \* ---- one enhancedFetch call (SpecFetch) ----
  efCall,         \* loop state of the call: attempt, lastError, status, value, thrown
  efLog,          \* the answers received and the wait that followed each
  efRetries,      \* the retries argument of the call
  \* ---- one request built by fetchPosts (SpecQuery) ----
  qIn,            \* the inputs of the build
  qOut,           \* the request built from them, or NoRequest
  \* ---- one requestSort call on a live result (SpecSort) ----
  sortIn,         \* the collection displayed, the sortConfig and the key clicked
  sortOut,        \* the state after the click, or NoSort
  \* ---- the post detail view and its comments (SpecComments) ----
  viewPost,       \* modals.viewPost: NoPost or the id of the post shown
  comments,       \* comments: a sequence of comment records
  loadingComments, \* loadingComments
  commentCalls,   \* fetchComments invocations suspended at `await enhancedFetch`
  commentsIssued, \* number of fetchComments calls made so far
  \* ---- the session: AuthProvider state and client storage (SpecAuth) ----
  provider,       \* which AuthProvider is built: "AuthContext.js" or "part_000"
  authToken,      \* localStorage 'authToken': NoToken or a token
  userData,       \* localStorage 'userData': NoUser or a user (part_000 only)
  currentUser,    \* currentUser: NoUser (null) or a user
  authLoading,    \* loading of the AuthProvider
  authError,      \* error of the AuthProvider: "" (null) or a message
  authCalls,      \* the profile and login requests in flight
  authIssued,     \* number of login calls made so far
  authEvent,      \* what the last step of the session did
  lastSent,       \* the last request sent by enhancedFetch, or NotSent
  preferences,    \* currentUser.preferences: NoPreferences or a value
  panel,          \* the SavedFiltersPanel: its filters, loading and error
  opsIssued,      \* number of calls of the authenticated operations so far
  \* ---- the filter form and the projections of filteredPosts ----
  fields,         \* the text of the numeric fields and of one other field of filters
  vizIn,          \* the filteredPosts that a projection is computed from
  vizOut,         \* the projections computed from vizIn, or NoViz
  \* ---- one saved filter, from the SaveFilterModal to the panel's Apply ----
  savedIn,        \* the view when the filter is saved and when it is applied
  savedOut        \* the SavedFilter stored, and the App after the Apply click

appVars == <<posts, filteredPosts, loading, loadingMore, error, isLiveSearch, hasMore, currentPage,
             postsPerPage, filters, searchOptions, sortConfig, autoRefreshTimer, setup,
             fetchFilters, timers, timersMade, visible, mounted, calls, issued,
             lastEvent, newestApplied, appended, budget>>
efVars == <<efCall, efLog, efRetries>>
qVars == <<qIn, qOut>>
sortVars == <<sortIn, sortOut>>
cVars == <<viewPost, comments, loadingComments, commentCalls, commentsIssued>>
authVars == <<provider, authToken, userData, currentUser, authLoading, authError, authCalls,
              authIssued, authEvent, lastSent, preferences, panel, opsIssued>>
viewVars == <<fields, vizIn, vizOut, savedIn, savedOut>>
nonAppVars == <<efVars, qVars, sortVars, cVars, authVars, viewVars>>
vars == <<appVars, nonAppVars>>

(***************************************************************************)
(* enhancedFetch (App.js 192-247).                                         *)
(*                                                                         *)
(* An answer to one attempt is a record                                    *)
(*   kind       "response" (fetch resolved), "network" (fetch rejected),   *)
(*              "abort" (the timeout fired: controller.abort())            *)
(*   status     the HTTP status of a response                              *)
(*   retryAfter the Retry-After header as its digits; <<>> when absent     *)
(*   json       whether the body parses as JSON                            *)
(*   body       the parsed body                                            *)
(***************************************************************************)
Undefined == [name |-> "undefined", message |-> ""]

Answer(kind, status, retryAfter, json, body) ==
  [kind |-> kind, status |-> status, retryAfter |-> retryAfter, json |-> json, body |-> body]

OkAnswer(body) == Answer("response", 200, <<>>, TRUE, body)
BadJsonAnswer == Answer("response", 200, <<>>, FALSE, <<>>)
RateLimited(retryAfter) == Answer("response", 429, retryAfter, TRUE, <<>>)
HttpFailure(status) == Answer("response", status, <<>>, TRUE, <<>>)
NetworkFailure == Answer("network", 0, <<>>, TRUE, <<>>)
TimeoutAbort == Answer("abort", 0, <<>>, TRUE, <<>>)

\* response.ok
ResponseOk(a) == a.kind = "response" /\ a.status >= 200 /\ a.status <= 299

\* parseInt of a string of decimal digits
RECURSIVE parseInt(_)
parseInt(digits) ==
  IF digits = <<>> THEN 0
  ELSE 10 * parseInt(SubSeq(digits, 1, Len(digits) - 1)) + digits[Len(digits)]

\* const waitTime = retryAfter ? parseInt(retryAfter) * 1000 : 5000;
RateLimitWait(retryAfter) ==
  IF retryAfter # <<>> THEN parseInt(retryAfter) * 1000 ELSE DefaultRateLimitWait

BackoffDelay_constant(attempt) == BackoffBase

\* 1000 * Math.pow(2, attempt)
BackoffDelay(attempt) == BackoffBase * 2^attempt

\* the error the try block raises for an answer that is not returned
AttemptError(a) ==
  CASE a.kind = "abort" -> [name |-> "AbortError", message |-> "The user aborted a request."]
    [] a.kind = "network" -> [name |-> "TypeError", message |-> "Failed to fetch"]
    [] a.kind = "response" /\ ~ResponseOk(a) ->
         [name |-> "Error", message |-> "HTTP error " \o ToString(a.status)]
    [] OTHER -> [name |-> "SyntaxError", message |-> "Unexpected token in JSON"]

IsAbortError_never(err) == FALSE

\* if (error.name === 'AbortError')
IsAbortError(err) == err.name = "AbortError"

TimeoutError == [name |-> "Error", message |-> "Request timed out. Please try again."]

NoWait == -1

\* the loop state when the first fetch of a call is pending
enhancedFetchStart ==
  [attempt |-> 0, lastError |-> Undefined, status |-> "pending",
   value |-> <<>>, thrown |-> Undefined]

NextAttempt_oneMore(e, retries, lastError) ==
  IF e.attempt + 1 <= retries
  THEN [e EXCEPT !.attempt = e.attempt + 1, !.lastError = lastError]
  ELSE [e EXCEPT !.attempt = e.attempt + 1, !.lastError = lastError,
                 !.status = "thrown", !.thrown = lastError]

\* leaving the for loop: `attempt++`, then the next fetch or `throw lastError`
NextAttempt(e, retries, lastError) ==
  IF e.attempt + 1 < retries
  THEN [e EXCEPT !.attempt = e.attempt + 1, !.lastError = lastError]
  ELSE [e EXCEPT !.attempt = e.attempt + 1, !.lastError = lastError,
                 !.status = "thrown", !.thrown = lastError]

\* One pass of the loop body from the arrival of the answer to the pending
\* fetch, up to the next suspension at `await fetch` or the end of the call.
enhancedFetchStep(e, retries, a) ==
  IF ResponseOk(a) /\ a.json
  THEN [e EXCEPT !.status = "returned", !.value = a.body]
  ELSE IF a.kind = "response" /\ a.status = 429
  THEN NextAttempt(e, retries, e.lastError)
  ELSE IF IsAbortError(AttemptError(a))
  THEN [e EXCEPT !.lastError = AttemptError(a), !.status = "thrown", !.thrown = TimeoutError]
  ELSE NextAttempt(e, retries, AttemptError(a))

\* the setTimeout the pass awaits after the answer (NoWait when it awaits none)
enhancedFetchWait(e, retries, a) ==
  IF ResponseOk(a) /\ a.json THEN NoWait
  ELSE IF a.kind = "response" /\ a.status = 429 THEN RateLimitWait(a.retryAfter)
  ELSE IF IsAbortError(AttemptError(a)) THEN NoWait
  ELSE IF e.attempt < retries - 1 THEN BackoffDelay(e.attempt)
  ELSE NoWait

\* the class of an answer, as the log of SpecFetch records it
AnswerClass(a) ==
  CASE a.kind = "abort" -> "abort"
    [] a.kind = "network" -> "network"
    [] a.kind = "response" /\ a.status = 429 -> "429"
    [] a.kind = "response" /\ ~ResponseOk(a) -> "http"
    [] a.kind = "response" /\ ~a.json -> "badjson"
    [] OTHER -> "ok"

\* the loop state after the answers of a sequence, each given to the attempt
\* that is pending when it arrives
RECURSIVE enhancedFetchRun(_, _, _)
enhancedFetchRun(e, retries, answers) ==
  IF answers = <<>> \/ e.status # "pending" THEN e
  ELSE enhancedFetchRun(enhancedFetchStep(e, retries, Head(answers)), retries, Tail(answers))

(***************************************************************************)
(* SpecFetch: one call enhancedFetch(url) with the default budget,         *)
(* answered attempt by attempt by a server that may answer anything.       *)
(***************************************************************************)
FetchAnswers ==
  { OkAnswer(<<>>), BadJsonAnswer, RateLimited(<<>>), RateLimited(<<2>>),
    RateLimited(<<1, 0>>), HttpFailure(500), NetworkFailure, TimeoutAbort }

FetchIdle == efCall = enhancedFetchStart /\ efLog = <<>> /\ efRetries = DefaultRetries

\* the answer to the pending attempt arrives and the loop runs to its next await
FetchAnswer ==
  /\ efCall.status = "pending"
  /\ \E a \in FetchAnswers :
       /\ efCall' = enhancedFetchStep(efCall, efRetries, a)
       /\ efLog' = Append(efLog, [class |-> AnswerClass(a),
                                  retryAfter |-> a.retryAfter,
                                  wait |-> enhancedFetchWait(efCall, efRetries, a)])
  /\ UNCHANGED <<efRetries, appVars, qVars, sortVars, cVars, authVars, viewVars>>

(***************************************************************************)
(* The request built by fetchPosts (App.js 290-346).                       *)
(*                                                                         *)
(* A date string is modelled by its shape: "" (empty), a text that is not  *)
(* a date, or YYYY-MM-DD with its three numbers.  All other filter fields  *)
(* are strings, as the inputs deliver them.                                *)
(***************************************************************************)
EmptyDate == [shape |-> "empty", y |-> 0, m |-> 0, d |-> 0]
TextDate == [shape |-> "text", y |-> 0, m |-> 0, d |-> 0]
Ymd(y, m, d) == [shape |-> "ymd", y |-> y, m |-> m, d |-> d]

IsLeapYear(y) == (y % 4 = 0 /\ y % 100 # 0) \/ y % 400 = 0

DaysInMonth(y, m) ==
  CASE m = 2 -> IF IsLeapYear(y) THEN 29 ELSE 28
    [] m \in {4, 6, 9, 11} -> 30
    [] OTHER -> 31

\* days from 1970-01-01 to the civil date y-m-d (proleptic Gregorian, UTC)
DaysFromCivil(y, m, d) ==
  LET yy == IF m <= 2 THEN y - 1 ELSE y
      era == yy \div 400
      yoe == yy - era * 400
      mp == IF m > 2 THEN m - 3 ELSE m + 9
      doy == (153 * mp + 2) \div 5 + d - 1
      doe == yoe * 365 + yoe \div 4 - yoe \div 100 + doy
  IN era * 146097 + doe - 719468

\* new Date(dateString).getTime(): a date-only ISO string is midnight UTC of
\* that day; anything else modelled here is an Invalid Date (NaN).  The time
\* value is kept as whole seconds and the milliseconds within the second
\* (time = 1000 * sec + msec), which a 32-bit integer can hold.
DateGetTime(ds) ==
  IF ds.shape = "ymd" /\ ds.m \in 1..12 /\ ds.d \in 1..DaysInMonth(ds.y, ds.m)
  THEN [nan |-> FALSE, sec |-> DaysFromCivil(ds.y, ds.m, ds.d) * 86400, msec |-> 0]
  ELSE [nan |-> TRUE, sec |-> 0, msec |-> 0]

NullTs == [null |-> TRUE, ts |-> 0]

\* dateToTimestamp (App.js 270-274); Math.floor(time / 1000) is the whole
\* seconds of the time value
dateToTimestamp(dateString) ==
  IF dateString.shape = "empty" THEN NullTs
  ELSE IF DateGetTime(dateString).nan THEN NullTs
  ELSE [null |-> FALSE, ts |-> DateGetTime(dateString).sec]

\* if (startTs) / if (endTs): null and 0 are both falsy
TsTruthy(t) == ~t.null /\ t.ts # 0

\* endTs + 86400 // Include the full day
EndOfDay(ts) == ts + SecondsPerDay

EmptyParams == [k \in {} |-> ""]

\* params.append(key, value) when cond holds; URLSearchParams holds strings
ParamIf(cond, key, value) == IF cond THEN key :> value ELSE EmptyParams

UseLiveSearch_termOnly(f, so) == f.searchTerm # ""

UseLiveSearch_methodOnly(f, so) == so.searchMethod = "live"

\* if (currentFilters.searchTerm && searchOptions.searchMethod === 'live')
UseLiveSearch(f, so) == f.searchTerm # "" /\ so.searchMethod = "live"

LiveParams(f, so) ==
  ("q" :> f.searchTerm) @@ ("sort" :> so.sortMethod) @@ ("time_filter" :> so.timeFilter)
  @@ ParamIf(so.includeComments, "include_comments", "true")
  @@ ParamIf(f.subreddit # "", "subreddit", f.subreddit)

ListingParams(f, so, sc, page, pageSize, resetPage) ==
  LET startTs == dateToTimestamp(f.startDate)
      endTs == dateToTimestamp(f.endDate)
  IN ParamIf(f.minScore # "", "min_score", f.minScore)
     @@ ParamIf(f.maxScore # "", "max_score", f.maxScore)
     @@ ParamIf(f.minComments # "", "min_comments", f.minComments)
     @@ ParamIf(f.maxComments # "", "max_comments", f.maxComments)
     @@ ParamIf(f.sentiment # "", "sentiment", f.sentiment)
     @@ ParamIf(f.subreddit # "", "subreddit", f.subreddit)
     @@ ParamIf(f.searchTerm # "", "search", f.searchTerm)
     @@ ParamIf(TsTruthy(startTs), "start_date", ToString(startTs.ts))
     @@ ParamIf(TsTruthy(endTs), "end_date", ToString(EndOfDay(endTs.ts)))
     @@ ("limit" :> ToString(pageSize))
     @@ ParamIf(~resetPage /\ page > 1, "offset", ToString((page - 1) * pageSize))
     @@ ("sort_by" :> sc.key) @@ ("order" :> sc.direction)
     @@ ParamIf(so.searchMethod = "live", "live", "true")

\* the url and params of fetchPosts(resetPage, f), built from the values the
\* fetchPosts closure holds: searchOptions, sortConfig, currentPage, postsPerPage
BuildRequest(f, so, sc, page, pageSize, resetPage) ==
  IF UseLiveSearch(f, so)
  THEN [built |-> TRUE, endpoint |-> "/search", params |-> LiveParams(f, so)]
  ELSE [built |-> TRUE, endpoint |-> "/posts",
        params |-> ListingParams(f, so, sc, page, pageSize, resetPage)]

NoRequest == [built |-> FALSE, endpoint |-> "", params |-> EmptyParams]

(***************************************************************************)
(* The client-side sort of requestSort (App.js 669-687).                   *)
(*                                                                         *)
(* A post is an identifier; its fields are given by PostField.  A string   *)
(* is the sequence of its character codes, so that toLowerCase and the     *)
(* comparison of strings are computed and not assumed.                     *)
(***************************************************************************)
Missing == [kind |-> "missing", num |-> 0, str |-> <<>>]
Number(n) == [kind |-> "number", num |-> n, str |-> <<>>]
String(cs) == [kind |-> "string", num |-> 0, str |-> cs]

\* the titles of the modelled posts: none, "B", "a", "b", "Ab"
PostTitle(id) ==
  CASE id % 5 = 1 -> String(<<66>>)
    [] id % 5 = 2 -> String(<<97>>)
    [] id % 5 = 3 -> String(<<98>>)
    [] id % 5 = 4 -> String(<<65, 98>>)
    [] OTHER -> Missing

\* the scores of the modelled posts: none for one post in ten, else -2..4
PostScore(id) ==
  IF id % 10 = 5 THEN Missing ELSE Number((((id % 10) * 3) % 7) - 2)

\* a[key] of post a
PostField(id, key) ==
  CASE key = "title" -> PostTitle(id)
    [] key = "score" -> PostScore(id)
    [] OTHER -> Number(id)

\* String.prototype.toLowerCase on the letters A-Z
toLowerCase(cs) == [i \in 1..Len(cs) |-> IF cs[i] \in 65..90 THEN cs[i] + 32 ELSE cs[i]]

\* a.localeCompare(b) for strings of lower-case letters: -1, 0 or 1
RECURSIVE localeCompare(_, _)
localeCompare(a, b) ==
  IF a = <<>> /\ b = <<>> THEN 0
  ELSE IF a = <<>> THEN -1
  ELSE IF b = <<>> THEN 1
  ELSE IF Head(a) < Head(b) THEN -1
  ELSE IF Head(a) > Head(b) THEN 1
  ELSE localeCompare(Tail(a), Tail(b))

\* (a[key] || '').toLowerCase()
StringValue(id, key) ==
  IF PostField(id, key).kind = "string" THEN toLowerCase(PostField(id, key).str) ELSE <<>>

\* a[key] || 0
NumberValue(id, key) ==
  IF PostField(id, key).kind = "number" THEN PostField(id, key).num ELSE 0

\* the comparator passed to sort (App.js 670-685); direction is the
\* sortConfig.direction the requestSort callback holds
SortCompare(a, b, key, direction) ==
  IF key \in {"title", "subreddit", "author"}
  THEN IF direction = "asc"
       THEN localeCompare(StringValue(a, key), StringValue(b, key))
       ELSE localeCompare(StringValue(b, key), StringValue(a, key))
  ELSE IF direction = "asc"
       THEN NumberValue(a, key) - NumberValue(b, key)
       ELSE NumberValue(b, key) - NumberValue(a, key)

\* x put into the sorted sequence after the elements that do not follow it
RECURSIVE SortInsert(_, _, _, _)
SortInsert(x, sorted, key, direction) ==
  IF sorted = <<>> THEN <<x>>
  ELSE IF SortCompare(Head(sorted), x, key, direction) <= 0
  THEN <<Head(sorted)>> \o SortInsert(x, Tail(sorted), key, direction)
  ELSE <<x>> \o sorted

\* [...prevPosts].sort(comparator): Array.prototype.sort is stable
RECURSIVE SortPosts(_, _, _)
SortPosts(ps, key, direction) ==
  IF ps = <<>> THEN <<>>
  ELSE SortInsert(ps[Len(ps)], SortPosts(SubSeq(ps, 1, Len(ps) - 1), key, direction),
                  key, direction)

\* the updater of setSortConfig in requestSort (App.js 659-662)
NewSortConfig(prevConfig, key) ==
  [key |-> key,
   direction |-> IF prevConfig.key = key /\ prevConfig.direction = "asc" THEN "desc" ELSE "asc"]

(***************************************************************************)
(* The App component (App.js 62-744).                                      *)
(*                                                                         *)
(* The state of the component is handled as one record, so that a handler  *)
(* is an operator from state to state and the render that follows it, with *)
(* the effects that render triggers, is part of the same step (React 18    *)
(* batches the setState calls of one handler or continuation).             *)
(***************************************************************************)
Null == [set |-> FALSE, message |-> ""]

DefaultFilters ==
  [minScore |-> "", maxScore |-> "", minComments |-> "", maxComments |-> "",
   sentiment |-> "", searchTerm |-> "", startDate |-> EmptyDate, endDate |-> EmptyDate,
   subreddit |-> ""]

DefaultSearchOptions ==
  [searchMethod |-> "database", sortMethod |-> "relevance", timeFilter |-> "all",
   includeComments |-> FALSE, autoRefresh |-> FALSE, refreshInterval |-> 60]

DefaultSortConfig == [key |-> "created_utc", direction |-> "desc"]

\* <option value="10">, <option value="25">: two of the selector's four options
PageSizeOptions == {10, 25}

\* useState(null) of autoRefreshTimer; the ids of setInterval are positive
NoTimer == 0

\* page is the page counter the continuation commits, before the effects of
\* that render run; before holds what the call found when it was made
NoEvent == [type |-> "none", seq |-> 0, reset |-> FALSE, escaped |-> FALSE,
            thrown |-> "", body |-> <<>>, pageSize |-> 0, page |-> 0,
            before |-> [page |-> 0, live |-> FALSE], twice |-> FALSE, timer |-> NoTimer]

\* What the callbacks made in the render of state s capture: fetchPosts reads
\* searchOptions, sortConfig, currentPage, postsPerPage and isLiveSearch, and
\* filters when it is called without filtersToUse; setupAutoRefresh reads
\* autoRefreshTimer, and its interval callback calls that render's fetchPosts.
Closure(s) ==
  [timer |-> s.autoRefreshTimer, searchOptions |-> s.searchOptions,
   sortConfig |-> s.sortConfig, currentPage |-> s.currentPage,
   postsPerPage |-> s.postsPerPage, isLiveSearch |-> s.isLiveSearch,
   filters |-> s.filters]

\* the useState initial values and the callbacks of the first render, before
\* the mount effect has run
InitialState ==
  [posts |-> <<>>, filteredPosts |-> <<>>, loading |-> TRUE, loadingMore |-> FALSE, error |-> Null,
   isLiveSearch |-> FALSE, hasMore |-> TRUE, currentPage |-> 1, postsPerPage |-> 10,
   filters |-> DefaultFilters, searchOptions |-> DefaultSearchOptions,
   sortConfig |-> DefaultSortConfig, autoRefreshTimer |-> NoTimer,
   setup |-> [timer |-> NoTimer, searchOptions |-> DefaultSearchOptions,
              sortConfig |-> DefaultSortConfig, currentPage |-> 1, postsPerPage |-> 10,
              isLiveSearch |-> FALSE, filters |-> DefaultFilters],
   fetchFilters |-> DefaultFilters, timers |-> {}, timersMade |-> 0,
   visible |-> TRUE, mounted |-> TRUE, calls |-> {}, issued |-> 0,
   lastEvent |-> NoEvent, newestApplied |-> 0, appended |-> {}, budget |-> MaxCalls]

\* the current state as a record
State ==
  [posts |-> posts, filteredPosts |-> filteredPosts, loading |-> loading, loadingMore |-> loadingMore, error |-> error,
   isLiveSearch |-> isLiveSearch, hasMore |-> hasMore, currentPage |-> currentPage,
   postsPerPage |-> postsPerPage, filters |-> filters, searchOptions |-> searchOptions,
   sortConfig |-> sortConfig, autoRefreshTimer |-> autoRefreshTimer, setup |-> setup,
   fetchFilters |-> fetchFilters, timers |-> timers, timersMade |-> timersMade,
   visible |-> visible, mounted |-> mounted, calls |-> calls, issued |-> issued,
   lastEvent |-> NoEvent, newestApplied |-> newestApplied, appended |-> appended,
   budget |-> budget]

\* the next state is the record s
Becomes(s) ==
  /\ posts' = s.posts
  /\ filteredPosts' = s.filteredPosts
  /\ loading' = s.loading
  /\ loadingMore' = s.loadingMore
  /\ error' = s.error
  /\ isLiveSearch' = s.isLiveSearch
  /\ hasMore' = s.hasMore
  /\ currentPage' = s.currentPage
  /\ postsPerPage' = s.postsPerPage
  /\ filters' = s.filters
  /\ searchOptions' = s.searchOptions
  /\ sortConfig' = s.sortConfig
  /\ autoRefreshTimer' = s.autoRefreshTimer
  /\ setup' = s.setup
  /\ fetchFilters' = s.fetchFilters
  /\ timers' = s.timers
  /\ timersMade' = s.timersMade
  /\ visible' = s.visible
  /\ mounted' = s.mounted
  /\ calls' = s.calls
  /\ issued' = s.issued
  /\ lastEvent' = s.lastEvent
  /\ newestApplied' = s.newestApplied
  /\ appended' = s.appended
  /\ budget' = s.budget

\* the Append calls that are in flight with the request req when an Append
\* call with that request is made (history, for the properties)
Rivals(s, req, resetPage) ==
  IF resetPage THEN {} ELSE {c.seq : c \in {d \in s.calls : ~d.resetPage /\ d.req = req}}

\* a setter of an unmounted component changes nothing: t is what a callback
\* makes of s, with the useState values kept when the App is unmounted
SetState(s, t) ==
  IF s.mounted THEN t
  ELSE [t EXCEPT !.posts = s.posts, !.filteredPosts = s.filteredPosts,
                 !.loading = s.loading, !.loadingMore = s.loadingMore, !.error = s.error,
                 !.isLiveSearch = s.isLiveSearch, !.hasMore = s.hasMore,
                 !.currentPage = s.currentPage, !.postsPerPage = s.postsPerPage,
                 !.filters = s.filters, !.searchOptions = s.searchOptions,
                 !.sortConfig = s.sortConfig, !.autoRefreshTimer = s.autoRefreshTimer]

\* The synchronous part of fetchPosts(resetPage, f), up to `await fetch` inside
\* enhancedFetch (App.js 278-350).  cl is the render whose fetchPosts is called:
\* the request is built from the searchOptions, sortConfig, currentPage and
\* postsPerPage of that render, and the continuation keeps its postsPerPage,
\* its isLiveSearch, its searchOptions.autoRefresh and its setupAutoRefresh.
fetchPosts(s, cl, resetPage, f) ==
  SetState(s,
  [s EXCEPT
     !.loading = IF resetPage THEN TRUE ELSE @,
     !.currentPage = IF resetPage THEN 1 ELSE @,
     !.loadingMore = IF resetPage THEN @ ELSE TRUE,
     !.error = Null,
     !.isLiveSearch = UseLiveSearch(f, cl.searchOptions),
     !.issued = @ + 1,
     !.calls = @ \cup
       {[seq |-> s.issued + 1,
         resetPage |-> resetPage,
         pageSize |-> cl.postsPerPage,
         live |-> cl.isLiveSearch,
         autoRefresh |-> cl.searchOptions.autoRefresh,
         setup |-> cl.setup,
         before |-> [page |-> s.currentPage, live |-> s.isLiveSearch],
         rivals |-> Rivals(s, BuildRequest(f, cl.searchOptions, cl.sortConfig,
                                           cl.currentPage, cl.postsPerPage, resetPage),
                           resetPage),
         req |-> BuildRequest(f, cl.searchOptions, cl.sortConfig, cl.currentPage,
                              cl.postsPerPage, resetPage)]}])

\* the dependencies of the fetchPosts callback that are compared by value
\* (App.js 377-389); objects replaced by a setter are reported by the handler
FetchPostsDeps(s) == <<s.searchOptions, s.currentPage, s.postsPerPage, s.sortConfig,
                       s.isLiveSearch>>

\* the dependencies of the setupAutoRefresh callback (App.js 267)
SetupDeps(s) == <<s.searchOptions.refreshInterval, s.autoRefreshTimer>>

\* The render after a batch of updates, and its effects, with currentUser =
\* null.  prev is the state of the previous render; replaced names the state
\* object that a handler replaced ("filters", "searchOptions", "sortConfig"),
\* "mount" stands for the first render and "" for no replacement.
\*   - setupAutoRefresh is made anew when SetupDeps change, and fetchPosts when
\*     setupAutoRefresh, searchOptions, sortConfig or another of FetchPostsDeps
\*     change: the new callbacks capture the values of this render;
\*   - the cleanup of the timer effect (App.js 445-452) clears the interval
\*     of the previous render when autoRefreshTimer has changed;
\*   - the mount/update effect (App.js 455-504) runs again whenever
\*     fetchPosts or filters is a new object, and calls fetchPosts(true,
\*     filters) of this render.
\* An unmounted App does not render.
RECURSIVE Render(_, _, _)
Render(prev, s, replaced) ==
  LET newSetup == SetupDeps(prev) # SetupDeps(s)
      newFetch == \/ newSetup
                  \/ replaced \in {"searchOptions", "sortConfig"}
                  \/ FetchPostsDeps(prev) # FetchPostsDeps(s)
      r == [s EXCEPT
              !.setup = IF newSetup THEN Closure(s) ELSE @,
              !.fetchFilters = IF newFetch THEN s.filters ELSE @,
              !.timers = IF prev.autoRefreshTimer # s.autoRefreshTimer
                         THEN {t \in @ : t.id # prev.autoRefreshTimer}
                         ELSE @]
  IN IF ~s.mounted THEN s
     ELSE IF newFetch \/ replaced \in {"mount", "filters"}
          THEN Render(r, fetchPosts(r, r, TRUE, r.filters), "")
          ELSE r

\* if (loading && !loadingMore) return <div className="app-loading">
LoadingScreen(s) == s.mounted /\ s.loading /\ ~s.loadingMore

\* if (error && !filteredPosts.length) return <div className="app-error">
ErrorScreen(s) ==
  s.mounted /\ ~LoadingScreen(s) /\ s.error.set /\ Len(s.filteredPosts) = 0

MainScreen(s) == s.mounted /\ ~LoadingScreen(s) /\ ~ErrorScreen(s)

\* a step of the App is possible while the calls it issues stay within the bound
Step(s) == \E t \in {s} : t.issued <= t.budget /\ Becomes(t)

\* handleFetchError(error, 'fetch posts') (App.js 169-189).  The errors that
\* enhancedFetch throws carry neither .response nor .request, so the message is
\* built from error.message; reading .response of undefined raises a TypeError
\* before setError is reached.
handleFetchError(s, err, c) ==
  IF err = Undefined
  THEN [s EXCEPT !.lastEvent = [NoEvent EXCEPT !.type = "failed", !.seq = c.seq,
                                               !.reset = c.resetPage, !.escaped = TRUE,
                                               !.thrown = "TypeError",
                                               !.page = s.currentPage, !.before = c.before]]
  ELSE [s EXCEPT !.error = [set |-> TRUE,
                            message |-> "Failed to fetch posts: " \o err.message],
                 !.lastEvent = [NoEvent EXCEPT !.type = "failed", !.seq = c.seq,
                                               !.reset = c.resetPage,
                                               !.page = s.currentPage, !.before = c.before]]

ApplyResponse_prepend(s, c, data) ==
  [s EXCEPT
     !.posts = IF c.resetPage THEN data ELSE data \o @,
     !.filteredPosts = IF c.resetPage THEN data ELSE data \o @,
     !.currentPage = IF c.resetPage THEN 1 ELSE @ + 1,
     !.hasMore = Len(data) = c.pageSize]

ApplyResponse_appendOnReset(s, c, data) ==
  [s EXCEPT
     !.posts = @ \o data,
     !.filteredPosts = @ \o data,
     !.currentPage = IF c.resetPage THEN 1 ELSE @ + 1,
     !.hasMore = Len(data) = c.pageSize]

\* the reconciliation of a successful response (App.js 352-365)
ApplyResponse(s, c, data) ==
  [s EXCEPT
     !.posts = IF c.resetPage THEN data ELSE @ \o data,
     !.filteredPosts = IF c.resetPage THEN data ELSE @ \o data,
     !.currentPage = IF c.resetPage THEN 1 ELSE @ + 1,
     !.hasMore = Len(data) = c.pageSize]

\* finally { setLoading(false); setLoadingMore(false); }
Finally(s) == [s EXCEPT !.loading = FALSE, !.loadingMore = FALSE]

\* whether the page of Append call c was already appended by a call that was in
\* flight together with c (history, for the properties)
AppendedTwice(s, c, data) ==
  /\ ~c.resetPage
  /\ Len(data) > 0
  /\ \E y \in s.appended : y.seq \in c.rivals \/ c.seq \in y.rivals

\* the Append calls applied with a non-empty response since the last applied
\* Reset, after call c is applied with response data
AppendedAfter(s, c, data) ==
  IF c.resetPage THEN {}
  ELSE IF Len(data) = 0 THEN s.appended
  ELSE s.appended \cup {[seq |-> c.seq, rivals |-> c.rivals]}

\* setupAutoRefresh() (App.js 250-267) as captured in su: clearInterval of the
\* timer that render held, setInterval of a callback that calls the
\* fetchPosts of that render, and setAutoRefreshTimer(intervalId)
setupAutoRefresh(s, su) ==
  [s EXCEPT !.timers = {t \in @ : t.id # su.timer}
                       \cup {[id |-> s.timersMade + 1, setup |-> su]},
            !.timersMade = @ + 1,
            !.autoRefreshTimer = s.timersMade + 1]

\* if (isLiveSearch && searchOptions.autoRefresh) setupAutoRefresh(), with the
\* values that call c captured (App.js 367-370)
AutoRefreshAfter(s, c) ==
  IF c.live /\ c.autoRefresh THEN setupAutoRefresh(s, c.setup) ELSE s

\* The continuation of call c of fetchPosts once enhancedFetch has ended in
\* state e (App.js 350-376).
fetchPostsResume(s, c, e) ==
  LET rest == [s EXCEPT !.calls = @ \ {c}]
  IN IF e.status = "returned"
     THEN SetState(s, Finally(AutoRefreshAfter(
            [ApplyResponse(rest, c, e.value) EXCEPT
               !.lastEvent = [NoEvent EXCEPT !.type = "applied", !.seq = c.seq,
                                             !.reset = c.resetPage, !.body = e.value,
                                             !.pageSize = c.pageSize,
                                             !.page = ApplyResponse(rest, c, e.value).currentPage,
                                             !.before = c.before,
                                             !.twice = AppendedTwice(rest, c, e.value)],
               !.newestApplied = IF c.seq > @ THEN c.seq ELSE @,
               !.appended = AppendedAfter(rest, c, e.value)], c)))
     ELSE SetState(s, Finally(handleFetchError(rest, e.thrown, c)))

\* the posts of a body: n posts, identified by the call they answer
Body(seq, n) == [i \in 1..n |-> 100 * seq + i]

\* lengths of the bodies the modelled server returns: none, and a full page of
\* each size (a full page of 10 is a partial page of 25)
BodyLengths == {0} \cup PageSizeOptions

AppAnswers(c) ==
  { OkAnswer(Body(c.seq, n)) : n \in BodyLengths }
  \cup { BadJsonAnswer, RateLimited(<<>>), HttpFailure(500), NetworkFailure, TimeoutAbort }

\* the answers that do not carry a body
FailureAnswers == AppAnswers([seq |-> 0]) \ { OkAnswer(Body(0, n)) : n \in BodyLengths }

\* the loop states in which a call of enhancedFetch awaits the answer to an
\* attempt: the first attempt, and the attempts that follow failed ones
PendingFetches ==
  { e \in { enhancedFetchRun(enhancedFetchStart, DefaultRetries, r) :
              r \in UNION { [1..n -> FailureAnswers] : n \in 0..(DefaultRetries - 1) } } :
      e.status = "pending" }

\* what the caller of enhancedFetch receives: the value returned or the error thrown
enhancedFetchOutcome(e) == [status |-> e.status, value |-> e.value, thrown |-> e.thrown]

\* the ways the enhancedFetch of a call can end
FetchOutcomes(c) ==
  { o \in { enhancedFetchOutcome(enhancedFetchStep(e, DefaultRetries, a)) :
              e \in PendingFetches, a \in AppAnswers(c) } :
      o.status # "pending" }

SearchTerms == {"", "cats"}

\* the state after the first render and its mount effect
Mounted == Render(InitialState, InitialState, "mount")

\* the App starts in state s
AppStarts(s) ==
  /\ posts = s.posts
  /\ filteredPosts = s.filteredPosts
  /\ loading = s.loading
  /\ loadingMore = s.loadingMore
  /\ error = s.error
  /\ isLiveSearch = s.isLiveSearch
  /\ hasMore = s.hasMore
  /\ currentPage = s.currentPage
  /\ postsPerPage = s.postsPerPage
  /\ filters = s.filters
  /\ searchOptions = s.searchOptions
  /\ sortConfig = s.sortConfig
  /\ autoRefreshTimer = s.autoRefreshTimer
  /\ setup = s.setup
  /\ fetchFilters = s.fetchFilters
  /\ timers = s.timers
  /\ timersMade = s.timersMade
  /\ visible = s.visible
  /\ mounted = s.mounted
  /\ calls = s.calls
  /\ issued = s.issued
  /\ lastEvent = s.lastEvent
  /\ newestApplied = s.newestApplied
  /\ appended = s.appended
  /\ budget = s.budget

AppInit == AppStarts(Mounted)

\* handleSearchChange (App.js 555-561)
HandleSearchChange ==
  /\ MainScreen(State)
  /\ \E v \in SearchTerms :
       Step(Render(State, [State EXCEPT !.filters.searchTerm = v], "filters"))
  /\ UNCHANGED nonAppVars

\* handleSearchOptionsChange (App.js 564-579) of the search-method selector,
\* with no user logged in
HandleSearchOptionsChange ==
  /\ MainScreen(State)
  /\ \E v \in {"database", "live"} :
       Step(Render(State, [State EXCEPT !.searchOptions.searchMethod = v], "searchOptions"))
  /\ UNCHANGED nonAppVars

\* handleSearchOptionsChange (App.js 564-579) of the Auto-Refresh checkbox,
\* which is rendered while searchOptions.searchMethod === 'live' (App.js
\* 1581-1592).  The refresh-interval slider is not moved: refreshInterval
\* keeps its initial value.
HandleAutoRefreshChange ==
  /\ MainScreen(State)
  /\ searchOptions.searchMethod = "live"
  /\ Step(Render(State, [State EXCEPT !.searchOptions.autoRefresh = ~@], "searchOptions"))
  /\ UNCHANGED nonAppVars

\* the fetchPosts of the render that made the setupAutoRefresh su
FetchPostsOf(su) ==
  [searchOptions |-> su.searchOptions, sortConfig |-> su.sortConfig,
   currentPage |-> su.currentPage, postsPerPage |-> su.postsPerPage,
   isLiveSearch |-> su.isLiveSearch, setup |-> su]

TimerFires_ungated(s, t) ==
  fetchPosts([s EXCEPT !.lastEvent = [NoEvent EXCEPT !.type = "tick", !.timer = t.id]],
             FetchPostsOf(t.setup), TRUE, t.setup.filters)

\* the callback of interval t (App.js 257-261):
\* if (document.visibilityState === 'visible') fetchPosts(true)
TimerFires(s, t) ==
  LET ticked == [s EXCEPT !.lastEvent = [NoEvent EXCEPT !.type = "tick", !.timer = t.id]]
  IN IF s.visible
     THEN fetchPosts(ticked, FetchPostsOf(t.setup), TRUE, t.setup.filters)
     ELSE ticked

\* an interval that is set elapses
TimerTick ==
  /\ \E t \in timers : Step(Render(State, TimerFires(State, t), ""))
  /\ UNCHANGED nonAppVars

\* handleVisibilityChange (App.js 431-435), the listener of this render
handleVisibilityChange(s) ==
  IF s.visible /\ s.isLiveSearch /\ s.searchOptions.autoRefresh
  THEN fetchPosts(s, s, TRUE, s.filters)
  ELSE s

\* the page is hidden or shown: the visibilitychange event reaches the
\* listener while the App is mounted (App.js 437-441)
VisibilityChange ==
  /\ LET changed == [State EXCEPT !.visible = ~@,
                                  !.lastEvent = [NoEvent EXCEPT !.type = "visibility"]]
     IN Step(Render(State, IF mounted THEN handleVisibilityChange(changed) ELSE changed, ""))
  /\ UNCHANGED nonAppVars

\* The App is unmounted: the cleanup of the timer effect clears the interval
\* held in autoRefreshTimer (App.js 446-451) and the listeners are removed;
\* the calls in flight and the other intervals stay.
Unmount ==
  /\ mounted
  /\ Step([State EXCEPT !.mounted = FALSE,
                        !.timers = {t \in @ : t.id # autoRefreshTimer},
                        !.lastEvent = [NoEvent EXCEPT !.type = "unmount"]])
  /\ UNCHANGED nonAppVars

\* handleFilterSubmit (App.js 534-537)
HandleFilterSubmit ==
  /\ MainScreen(State)
  /\ Step(Render(State, fetchPosts(State, State, TRUE, filters), ""))
  /\ UNCHANGED nonAppVars

\* the Retry button of the error screen (App.js 1294-1304)
RetryClick ==
  /\ ErrorScreen(State)
  /\ Step(Render(State, fetchPosts(State, State, TRUE, filters), ""))
  /\ UNCHANGED nonAppVars

\* the Load More button (App.js 2217-2235)
LoadMoreClick ==
  /\ MainScreen(State)
  /\ Len(filteredPosts) > 0
  /\ hasMore
  /\ ~loadingMore
  /\ Step(Render(State, fetchPosts(State, State, FALSE, filters), ""))
  /\ UNCHANGED nonAppVars

\* the column headers of the posts table that the model clicks
SortKeys == {"score"}

\* requestSort(key) (App.js 658-689), called from a column header: the fetch
\* and the comparator are those of the render that holds the callback, whose
\* sortConfig is the one before the click
requestSort(s, key) ==
  LET sorted == [s EXCEPT !.sortConfig = NewSortConfig(s.sortConfig, key),
                          !.lastEvent = [NoEvent EXCEPT !.type = "sort"]]
  IN IF ~s.isLiveSearch
     THEN fetchPosts(sorted, s, TRUE, s.filters)
     ELSE [sorted EXCEPT
             !.filteredPosts = SortPosts(s.filteredPosts, key, s.sortConfig.direction)]

RequestSort ==
  /\ MainScreen(State)
  /\ Len(filteredPosts) > 0
  /\ \E key \in SortKeys : Step(Render(State, requestSort(State, key), "sortConfig"))
  /\ UNCHANGED nonAppVars

\* handleScroll (App.js 692-707), the scroll listener of the window, for a
\* scroll position past the threshold
HandleScroll ==
  /\ mounted
  /\ ~loading
  /\ ~loadingMore
  /\ hasMore
  /\ Step(Render(State, fetchPosts(State, State, FALSE, filters), ""))
  /\ UNCHANGED nonAppVars

\* the posts-per-page selector (App.js 1810-1822), with no user logged in
SetPostsPerPage ==
  /\ MainScreen(State)
  /\ \E n \in PageSizeOptions \ {postsPerPage} :
       Step(Render(State, [State EXCEPT !.postsPerPage = n], ""))
  /\ UNCHANGED nonAppVars

\* The Next button of the pagination (App.js 2201-2214), rendered under the
\* table while filteredPosts is not empty.  The Previous button (App.js
\* 2184-2196) is disabled while currentPage === 1, which holds whenever the
\* table is rendered: every change of currentPage remakes fetchPosts, and the
\* effect then calls fetchPosts(true), which sets it to 1 again.
NextPageClick ==
  /\ MainScreen(State)
  /\ Len(filteredPosts) > 0
  /\ currentPage * postsPerPage < Len(filteredPosts)
  /\ Step(Render(State, [State EXCEPT !.currentPage = @ + 1], ""))
  /\ UNCHANGED nonAppVars

\* A call of fetchPosts ends: its enhancedFetch has received the answers of a
\* run, the last of which ends it, and fetchPosts resumes.  The attempts before
\* the last change nothing but the loop variables of that enhancedFetch call,
\* which no other step reads, so they are taken together with the last one.
FetchPostsAnswer ==
  /\ \E c \in calls : \E o \in FetchOutcomes(c) :
       Step(Render(State, fetchPostsResume(State, c, o), ""))
  /\ UNCHANGED nonAppVars

\* the server answers a call of fetchPosts with a full page
FetchPostsReturns ==
  /\ \E c \in calls :
       \E o \in {r \in FetchOutcomes(c) : r.status = "returned" /\ Len(r.value) = c.pageSize} :
         Step(Render(State, fetchPostsResume(State, c, o), ""))
  /\ UNCHANGED nonAppVars

(***************************************************************************)
(* SpecQuery: the request of one fetchPosts call, for every input of the   *)
(* bounded sets below.                                                     *)
(***************************************************************************)
DateStrings ==
  { EmptyDate, TextDate, Ymd(1969, 12, 31), Ymd(1970, 1, 1), Ymd(1970, 1, 2),
    Ymd(2024, 1, 1), Ymd(2024, 2, 29), Ymd(2024, 13, 1) }

QueryFilters ==
  [minScore : {"", "5"}, maxScore : {"", "100"}, minComments : {"", "0"},
   maxComments : {""}, sentiment : {"", "positive"}, searchTerm : {"", "cats"},
   startDate : DateStrings, endDate : DateStrings, subreddit : {"", "news"}]

QuerySearchOptions ==
  [searchMethod : {"database", "live"}, sortMethod : {"relevance"}, timeFilter : {"all"},
   includeComments : BOOLEAN, autoRefresh : {FALSE}, refreshInterval : {60}]

QueryInputs ==
  [filters : QueryFilters, searchOptions : QuerySearchOptions,
   sortConfig : {DefaultSortConfig, [key |-> "score", direction |-> "asc"]},
   currentPage : {1, 2}, postsPerPage : {10}, resetPage : BOOLEAN]

QueryIdle == qIn \in {CHOOSE i \in QueryInputs : TRUE} /\ qOut = NoRequest

QueryInit == qIn \in QueryInputs /\ qOut = NoRequest

\* fetchPosts builds the request of its call
Build ==
  /\ ~qOut.built
  /\ qOut' = BuildRequest(qIn.filters, qIn.searchOptions, qIn.sortConfig,
                          qIn.currentPage, qIn.postsPerPage, qIn.resetPage)
  /\ UNCHANGED <<qIn, appVars, efVars, sortVars, cVars, authVars, viewVars>>

(***************************************************************************)
(* SpecSort: one requestSort call while a live result is displayed, for    *)
(* every collection, sortConfig and key of the bounded sets below.         *)
(***************************************************************************)
\* five posts: titles "B", "a", "b", "Ab" and none; scores 1, 4, 0, 3 and none
SortPostIds == 1..5

\* the sequences of distinct posts of length 1 to n: the sortable headers are
\* rendered only while filteredPosts is not empty
SortCollections(n) ==
  UNION { { ps \in [1..k -> SortPostIds] : \A i, j \in 1..k : i # j => ps[i] # ps[j] } :
          k \in 1..n }

SortInputs ==
  [posts : SortCollections(MaxSortLen),
   sortConfig : [key : {"created_utc", "score", "title"}, direction : {"asc", "desc"}],
   key : {"score", "title"}]

NoSort == [done |-> FALSE, filteredPosts |-> <<>>, sortConfig |-> DefaultSortConfig,
           issued |-> 0]

\* no click is modelled: sortIn holds one post and the initial sortConfig
SortIdle ==
  /\ sortIn = [posts |-> <<1>>, sortConfig |-> DefaultSortConfig, key |-> "score"]
  /\ sortOut = NoSort

SortInit == sortIn \in SortInputs /\ sortOut = NoSort

\* the App with the live result of sortIn displayed and no call outstanding
SortState ==
  [InitialState EXCEPT !.loading = FALSE, !.isLiveSearch = TRUE,
                       !.posts = sortIn.posts, !.filteredPosts = sortIn.posts,
                       !.sortConfig = sortIn.sortConfig,
                       !.searchOptions.searchMethod = "live",
                       !.filters.searchTerm = "cats"]

\* requestSort(key) and the render that follows it
Sort ==
  /\ ~sortOut.done
  /\ LET s == Render(SortState, requestSort(SortState, sortIn.key), "sortConfig")
     IN sortOut' = [done |-> TRUE, filteredPosts |-> s.filteredPosts,
                    sortConfig |-> s.sortConfig, issued |-> s.issued]
  /\ UNCHANGED <<sortIn, appVars, efVars, qVars, cVars, authVars, viewVars>>

(***************************************************************************)
(* SpecComments: the post detail view.  The posts are those of the first   *)
(* page; the details button of a row calls fetchComments(post.id) and      *)
(* opens the modal, whose overlay covers the table until it is closed.     *)
(***************************************************************************)
\* modals.viewPost of no post: null initially, false once the modal was closed
NoPost == 0

\* the body of GET /posts/{postId}/comments: the comments of that post
CommentsOf(postId) == <<[id |-> 1, post_id |-> postId], [id |-> 2, post_id |-> postId]>>

\* useState([]) of comments, useState(false) of loadingComments, viewPost: null
CommentsIdle ==
  /\ viewPost = NoPost
  /\ comments = <<>>
  /\ loadingComments = FALSE
  /\ commentCalls = {}
  /\ commentsIssued = 0

\* the synchronous part of fetchComments(postId) (App.js 392-400)
fetchComments(postId) ==
  /\ commentsIssued < MaxCommentCalls
  /\ loadingComments' = TRUE
  /\ commentCalls' = commentCalls \cup {[seq |-> commentsIssued + 1, postId |-> postId]}
  /\ commentsIssued' = commentsIssued + 1
  /\ UNCHANGED comments

\* the details button of a row of the posts table (App.js 2162-2173):
\* fetchComments(post.id); toggleModal('viewPost', post.id)
OpenDetails ==
  /\ MainScreen(State)
  /\ viewPost = NoPost
  /\ \E i \in 1..Len(filteredPosts) :
       /\ i <= 2
       /\ fetchComments(filteredPosts[i])
       /\ viewPost' = filteredPosts[i]
  /\ UNCHANGED <<appVars, efVars, qVars, sortVars, authVars, viewVars>>

\* the close buttons of the modal (App.js 2365, 2515): toggleModal('viewPost',
\* null) stores !prev.viewPost, which is false; comments is left as it is
CloseDetails ==
  /\ MainScreen(State)
  /\ viewPost # NoPost
  /\ viewPost' = NoPost
  /\ UNCHANGED <<comments, loadingComments, commentCalls, commentsIssued>>
  /\ UNCHANGED <<appVars, efVars, qVars, sortVars, authVars, viewVars>>

\* the Load Comments button of the modal (App.js 2484-2495), rendered for the
\* post found in filteredPosts while comments is empty and none is loading
LoadComments ==
  /\ MainScreen(State)
  /\ viewPost # NoPost
  /\ \E i \in 1..Len(filteredPosts) : filteredPosts[i] = viewPost
  /\ Len(comments) = 0
  /\ ~loadingComments
  /\ fetchComments(viewPost)
  /\ UNCHANGED viewPost
  /\ UNCHANGED <<appVars, efVars, qVars, sortVars, authVars, viewVars>>

\* The continuation of call c of fetchComments (App.js 400-426) in a
\* production build: setComments(data) on success, handleFetchError(error,
\* 'fetch comments') on failure, setLoadingComments(false) in both cases.
CommentsAnswer ==
  /\ \E c \in commentCalls :
       /\ commentCalls' = commentCalls \ {c}
       /\ loadingComments' = FALSE
       /\ \/ /\ comments' = CommentsOf(c.postId)
             /\ UNCHANGED appVars
          \/ /\ \E o \in {r \in FetchOutcomes(c) : r.status = "thrown" /\ r.thrown # Undefined} :
                  Becomes([State EXCEPT
                             !.error = [set |-> TRUE,
                                        message |-> "Failed to fetch comments: "
                                                    \o o.thrown.message],
                             !.lastEvent = lastEvent])
             /\ UNCHANGED comments
  /\ UNCHANGED <<viewPost, commentsIssued>>
  /\ UNCHANGED <<efVars, qVars, sortVars, authVars, viewVars>>

(***************************************************************************)
(* SpecAuth: the session.  The repository holds two versions of the        *)
(* AuthProvider: src/sentient/src/AuthContext.js, which index.js imports,  *)
(* and src/unnamed/part_000, which also persists the user under            *)
(* 'userData'.  A behaviour is a page load with one of them, for each      *)
(* content of the client storage that the provider itself can have left    *)
(* there, followed by the answer to the profile request, logins, logouts,  *)
(* and requests sent by enhancedFetch of the App.                          *)
(***************************************************************************)
NoToken == ""
NoUser == ""
NoHeader == ""

Providers == {"AuthContext.js", "part_000"}

\* the token persisted before the page load and the one a login returns
StoredToken == "t0"
LoginToken == "t1"
\* the user persisted with the token, the user of the profile response and
\* the user of a login response
StoredUser == "stored"
ProfileUser == "profile"
LoginUser == "login"

NotSent == [sent |-> FALSE, token |-> NoToken, authorization |-> NoHeader]
\* currentUser.preferences: of no user, as the server sends them with the
\* user, as the stored userData holds them, and the values a caller passes to
\* updatePreferences
NoPreferences == 0
ServerPreferences == 1
StoredPreferences == 2
NewPreferences == {3, 4}

\* the saved filters that the server holds for the user
ServerFilters == {1, 2}

\* The SavedFiltersPanel (AuthContext.js 266-270): not rendered, or rendered
\* with useState([]), useState(true) and useState('').  instance tells the
\* mounts apart: a setter of an unmounted instance changes nothing.
NoPanel == [mounted |-> FALSE, instance |-> 0, filters |-> {}, loading |-> TRUE, error |-> ""]

\* what an operation of the provider returns to its caller: nothing yet, or
\* { success, message }; message is "undefined" where the code returns
\* data.message of a body that has none
NoResult == [returned |-> FALSE, success |-> FALSE, message |-> ""]
Success == [returned |-> TRUE, success |-> TRUE, message |-> ""]
Failure(message) == [returned |-> TRUE, success |-> FALSE, message |-> message]

\* call names the operation that the event belongs to
NoAuthEvent == [type |-> "none", answer |-> "", call |-> "", result |-> NoResult]

\* The headers that enhancedFetch adds to a request (App.js 205-213), given the
\* currentUser of its closure and the stored token:
\* if (currentUser) { token = getItem('authToken'); if (token) Authorization }
AuthorizationHeader(user, token) ==
  IF user # NoUser /\ token # NoToken THEN "Bearer " \o token ELSE NoHeader

\* whether the mount effect of the provider issues the profile request:
\* if (token) (AuthContext.js 18-19); if (token && userData) (part_000 18-21)
Revalidates(p, token, user) ==
  IF p = "AuthContext.js" THEN token # NoToken ELSE token # NoToken /\ user # NoUser

\* the profile request of the mount effect, with the token and the userData
\* that the effect read from the storage
ProfileCall(token, user) ==
  [kind |-> "profile", seq |-> 0, token |-> token, userData |-> user,
   admitted |-> TRUE, arg |-> 0, instance |-> 0, list |-> {}]

\* the session before any page load
AuthIdle ==
  /\ provider = "AuthContext.js"
  /\ authToken = NoToken
  /\ userData = NoUser
  /\ currentUser = NoUser
  /\ authLoading = FALSE
  /\ authError = ""
  /\ authCalls = {}
  /\ authIssued = 0
  /\ authEvent = NoAuthEvent
  /\ lastSent = NotSent
  /\ preferences = NoPreferences
  /\ panel = NoPanel
  /\ opsIssued = 0

\* The state after the first render of the provider and its mount effect
\* (AuthContext.js 9-24, part_000 11-47), for the storage contents that logout
\* and login of the same provider leave: no token, or a token (with the user,
\* for part_000).
AuthInit ==
  /\ provider \in Providers
  /\ authToken \in {NoToken, StoredToken}
  /\ userData = IF provider = "part_000" /\ authToken # NoToken THEN StoredUser ELSE NoUser
  /\ currentUser = NoUser
  /\ authLoading = Revalidates(provider, authToken, userData)
  /\ authError = ""
  /\ authCalls = IF Revalidates(provider, authToken, userData)
                 THEN {ProfileCall(authToken, userData)} ELSE {}
  /\ authIssued = 0
  /\ authEvent = NoAuthEvent
  /\ lastSent = NotSent
  /\ preferences = NoPreferences
  /\ panel = NoPanel
  /\ opsIssued = 0

\* the answers to an auth request: a 2xx response, another response, and a
\* rejected fetch
AuthAnswers == {"2xx", "non-2xx", "network"}

\* The continuation of the profile request c.  AuthContext.js 27-49
\* (fetchUserProfile): setCurrentUser(data.user); or removeItem('authToken')
\* and 'Session expired'; or 'Network error'.  part_000 22-41 (checkAuth):
\* setCurrentUser(JSON.parse(userData)); or removeItem of both; or nothing.
profile(c, answer) ==
  IF provider = "AuthContext.js"
  THEN /\ currentUser' = IF answer = "2xx" THEN ProfileUser ELSE currentUser
       /\ preferences' = IF answer = "2xx" THEN ServerPreferences ELSE preferences
       /\ authToken' = IF answer = "non-2xx" THEN NoToken ELSE authToken
       /\ authError' = IF answer = "non-2xx" THEN "Session expired. Please log in again."
                       ELSE IF answer = "network" THEN "Network error. Please try again."
                       ELSE authError
       /\ UNCHANGED userData
  ELSE /\ currentUser' = IF answer = "2xx" THEN c.userData ELSE currentUser
       /\ preferences' = IF answer = "2xx" THEN StoredPreferences ELSE preferences
       /\ authToken' = IF answer = "non-2xx" THEN NoToken ELSE authToken
       /\ userData' = IF answer = "non-2xx" THEN NoUser ELSE userData
       /\ UNCHANGED authError

\* the profile request is answered; setLoading(false) in every case
ProfileContinues ==
  /\ \E c \in {d \in authCalls : d.kind = "profile"} : \E answer \in AuthAnswers :
       /\ profile(c, answer)
       /\ authCalls' = authCalls \ {c}
       /\ authEvent' = [NoAuthEvent EXCEPT !.type = "profile", !.answer = answer]
  /\ authLoading' = FALSE
  /\ UNCHANGED <<provider, authIssued, lastSent, panel, opsIssued>>

\* the provider by itself: the profile request is answered
ProfileAnswer ==
  /\ ProfileContinues
  /\ UNCHANGED <<appVars, efVars, qVars, sortVars, cVars, viewVars>>

\* the two forms of the AuthModal
AuthForms == {"login", "register"}

\* the message of an error body: none, or the one the server sends
ErrorBodies == {"", "Invalid credentials"}

\* login(username, password) and register(username, email, password) up to
\* their fetch (AuthContext.js 52-62 and 83-93, part_000 85-95 and 50-60),
\* called from the AuthModal, which the App offers while currentUser is null
LoginSubmit ==
  /\ currentUser = NoUser
  /\ authIssued < MaxLogins
  /\ \E form \in AuthForms :
       /\ authCalls' = authCalls \cup {[kind |-> form, seq |-> authIssued + 1,
                                         token |-> NoToken, userData |-> NoUser,
                                         admitted |-> TRUE, arg |-> 0, instance |-> 0,
                                         list |-> {}]}
       /\ authEvent' = [NoAuthEvent EXCEPT !.type = "submit", !.call = form]
  /\ authError' = ""
  /\ authIssued' = authIssued + 1
  /\ UNCHANGED <<provider, authToken, userData, currentUser, authLoading, lastSent,
                 preferences, panel, opsIssued>>
  /\ UNCHANGED <<appVars, efVars, qVars, sortVars, cVars, viewVars>>

\* setError(data.message || 'Login failed') / 'Registration failed'
FailedMessage(form, body) ==
  IF body # "" THEN body
  ELSE IF form = "login" THEN "Login failed" ELSE "Registration failed"

\* the message of the catch block: AuthContext.js sets 'Network error. Please
\* try again.' and returns 'Network error'; part_000 sets and returns
\* 'Login failed. Please try again.' / 'Registration failed. Please try again.'
CaughtError(form) ==
  IF provider = "AuthContext.js" THEN "Network error. Please try again."
  ELSE IF form = "login" THEN "Login failed. Please try again."
  ELSE "Registration failed. Please try again."

CaughtMessage(form) ==
  IF provider = "AuthContext.js" THEN "Network error" ELSE CaughtError(form)

login_dropsSession(c, answer, body) ==
  /\ authToken' = IF answer = "2xx" THEN LoginToken ELSE NoToken
  /\ userData' = IF answer = "2xx" /\ provider = "part_000" THEN LoginUser ELSE userData
  /\ currentUser' = IF answer = "2xx" THEN LoginUser ELSE NoUser
  /\ preferences' = IF answer = "2xx" THEN ServerPreferences ELSE NoPreferences
  /\ authError' = IF answer = "2xx" THEN authError
                  ELSE IF answer = "non-2xx" THEN FailedMessage(c.kind, body)
                  ELSE CaughtError(c.kind)
  /\ authEvent' = [NoAuthEvent EXCEPT
                     !.type = "logged", !.answer = answer, !.call = c.kind,
                     !.result = IF answer = "2xx" THEN Success
                                ELSE IF answer = "non-2xx"
                                     THEN Failure(IF body # "" THEN body ELSE "undefined")
                                     ELSE Failure(CaughtMessage(c.kind))]

\* The continuation of the login or register call c (AuthContext.js 64-80 and
\* 95-111, part_000 97-116 and 62-82).  On a 2xx response: setItem of the
\* token (and of the user in part_000), setCurrentUser(data.user), return
\* { success: true }.  On another response: setError and return { success:
\* false, message: data.message }.  On a rejected fetch: setError and return
\* { success: false, message }.
login(c, answer, body) ==
  /\ authToken' = IF answer = "2xx" THEN LoginToken ELSE authToken
  /\ userData' = IF answer = "2xx" /\ provider = "part_000" THEN LoginUser ELSE userData
  /\ currentUser' = IF answer = "2xx" THEN LoginUser ELSE currentUser
  /\ preferences' = IF answer = "2xx" THEN ServerPreferences ELSE preferences
  /\ authError' = IF answer = "2xx" THEN authError
                  ELSE IF answer = "non-2xx" THEN FailedMessage(c.kind, body)
                  ELSE CaughtError(c.kind)
  /\ authEvent' = [NoAuthEvent EXCEPT
                     !.type = "logged", !.answer = answer, !.call = c.kind,
                     !.result = IF answer = "2xx" THEN Success
                                ELSE IF answer = "non-2xx"
                                     THEN Failure(IF body # "" THEN body ELSE "undefined")
                                     ELSE Failure(CaughtMessage(c.kind))]

\* a login or register call is answered
LoginContinues ==
  /\ \E c \in {d \in authCalls : d.kind \in AuthForms} :
       \E answer \in AuthAnswers :
         \E body \in IF answer = "non-2xx" THEN ErrorBodies ELSE {""} :
           /\ login(c, answer, body)
           /\ authCalls' = authCalls \ {c}
  /\ UNCHANGED <<provider, authLoading, authIssued, lastSent, panel, opsIssued>>

\* the provider by itself: a login or register call is answered
LoginAnswer ==
  /\ LoginContinues
  /\ UNCHANGED <<appVars, efVars, qVars, sortVars, cVars, viewVars>>

\* logout() (AuthContext.js 114-117, part_000 120-127), offered by the user
\* menu while a user is logged in
Logout ==
  /\ currentUser # NoUser
  /\ authToken' = NoToken
  /\ userData' = IF provider = "part_000" THEN NoUser ELSE userData
  /\ currentUser' = NoUser
  /\ preferences' = NoPreferences
  /\ panel' = [NoPanel EXCEPT !.instance = panel.instance]
  /\ authEvent' = [NoAuthEvent EXCEPT !.type = "logout"]
  /\ UNCHANGED <<provider, authLoading, authError, authCalls, authIssued, lastSent, opsIssued>>
  /\ UNCHANGED <<appVars, efVars, qVars, sortVars, cVars, viewVars>>

\* An attempt of enhancedFetch of the App sends its request (App.js 196-215).
\* The App is rendered inside the provider in every session state
\* (AuthContext.js 242, index.js 15-21); the enhancedFetch that runs is the
\* one of the current render, made with the current currentUser.
EnhancedFetchSends ==
  /\ lastSent' = [sent |-> TRUE, token |-> authToken,
                  authorization |-> AuthorizationHeader(currentUser, authToken)]
  /\ authEvent' = [NoAuthEvent EXCEPT !.type = "sent"]
  /\ UNCHANGED <<provider, authToken, userData, currentUser, authLoading, authError,
                 authCalls, authIssued, preferences, panel, opsIssued>>
  /\ UNCHANGED <<appVars, efVars, qVars, sortVars, cVars, viewVars>>

(***************************************************************************)
(* SpecForm: the inputs of the filter panel that handleFilterChange        *)
(* handles.  A text is a sequence of characters.                           *)
(***************************************************************************)
NumericFields == {"minScore", "maxScore", "minComments", "maxComments"}

\* the fields of the form: the numeric ones and one of the others
FormFields == NumericFields \cup {"subreddit"}

\* filters of useState (App.js 78-88): every field ''
DefaultForm == [name \in FormFields |-> <<>>]

FormIdle == fields = DefaultForm

Digits == {"0", "1", "2", "3", "4", "5", "6", "7", "8", "9"}

\* the characters that the inputs receive: a sign, a digit and a letter
FormKeys == {"-", "1", "a"}

\* the texts of at most n characters
RECURSIVE Texts(_)
Texts(n) ==
  IF n = 0 THEN {<<>>}
  ELSE Texts(n - 1) \cup {Append(t, k) : t \in {u \in Texts(n - 1) : Len(u) = n - 1}, k \in FormKeys}

\* e.target.value of a change event: text inputs (App.js 1395-1437) deliver
\* whatever is typed or pasted
FormValues == Texts(MaxInputLen)

\* /^-?\d*$/.test(value): an optional '-' followed by digits only, none included
MatchesNumericPattern(value) ==
  LET digits == IF Len(value) > 0 /\ value[1] = "-" THEN Tail(value) ELSE value
  IN \A i \in 1..Len(digits) : digits[i] \in Digits

\* the text is a decimal integer: an optional '-' and at least one digit,
\* which is when parseInt and Number give an integer for the whole text
ParsesAsInteger(value) ==
  LET digits == IF Len(value) > 0 /\ value[1] = "-" THEN Tail(value) ELSE value
  IN Len(digits) > 0 /\ \A i \in 1..Len(digits) : digits[i] \in Digits

\* handleFilterChange (App.js 540-552), as the updater that it passes to
\* setFilters, or no update
handleFilterChange(prev, name, value) ==
  IF name \in NumericFields
  THEN IF value = <<>> \/ MatchesNumericPattern(value)
       THEN [prev EXCEPT ![name] = value]
       ELSE prev
  ELSE [prev EXCEPT ![name] = value]

\* a change event of one of the inputs
HandleFilterChange ==
  /\ \E name \in FormFields :
       \E value \in IF name \in NumericFields THEN FormValues ELSE {<<>>, <<"a">>} :
         fields' = handleFilterChange(fields, name, value)
  /\ UNCHANGED <<vizIn, vizOut, savedIn, savedOut>>
  /\ UNCHANGED <<appVars, efVars, qVars, sortVars, cVars, authVars>>

(***************************************************************************)
(* The projections of filteredPosts: statsData and visualizationData.      *)
(***************************************************************************)
NoViz == [done |-> FALSE]

\* a view of the dashboard: what a SavedFilter is specified to hold
ViewOf(f, so, sc) == [filters |-> f, searchOptions |-> so, sortConfig |-> sc]

DefaultView == ViewOf(DefaultFilters, DefaultSearchOptions, DefaultSortConfig)

NoApply == [phase |-> "none"]

\* no filter is saved or applied
SavedIdle == savedIn = [saved |-> DefaultView, current |-> DefaultView] /\ savedOut = NoApply

VizIdle == vizIn = <<>> /\ vizOut = NoViz

ViewIdle == FormIdle /\ VizIdle /\ SavedIdle

\* A post, with the fields that the projections read.  sentiment_compound is
\* kept in thousandths (800 is 0.8, -50 is -0.05) and created_utc in whole
\* seconds; sums and quotients are exact, where the code computes in doubles.
PostOf(score, numComments, compound, created) ==
  [score |-> score, num_comments |-> numComments, sentiment_compound |-> compound,
   created_utc |-> created]

CompoundScale == 1000

\* the literals 0.05, 0.2 and 0.6 of the sentiment buckets, in thousandths
Slight == 50
Clear == 200
Strong == 600

\* A number: NaN, or the quotient num / den with den > 0.
NaN == [nan |-> TRUE, num |-> 0, den |-> 1]
Quotient(num, den) == [nan |-> FALSE, num |-> num, den |-> den]

\* a / b for a sum a over scale and a count b: 0 / 0 is NaN
Divide(a, scale, b) == IF b = 0 THEN NaN ELSE Quotient(a, scale * b)

DigitText(d) ==
  CASE d = 0 -> "0" [] d = 1 -> "1" [] d = 2 -> "2" [] d = 3 -> "3" [] d = 4 -> "4"
    [] d = 5 -> "5" [] d = 6 -> "6" [] d = 7 -> "7" [] d = 8 -> "8" [] d = 9 -> "9"

\* the decimal digits of n >= 0, as a text
RECURSIVE NaturalText(_)
NaturalText(n) ==
  IF n < 10 THEN <<DigitText(n)>> ELSE Append(NaturalText(n \div 10), DigitText(n % 10))

Pow10(k) == IF k = 0 THEN 1 ELSE IF k = 1 THEN 10 ELSE IF k = 2 THEN 100 ELSE 1000

\* the last k digits of n, with leading zeros
RECURSIVE PaddedText(_, _)
PaddedText(n, k) ==
  IF k = 0 THEN <<>> ELSE Append(PaddedText(n \div 10, k - 1), DigitText(n % 10))

ToFixed_truncating(x, f) ==
  IF x.nan THEN <<"N", "a", "N">>
  ELSE LET a == IF x.num < 0 THEN -x.num ELSE x.num
           n == (a * Pow10(f)) \div x.den
       IN (IF x.num < 0 THEN <<"-">> ELSE <<>>)
          \o NaturalText(n \div Pow10(f)) \o <<".">> \o PaddedText(n % Pow10(f), f)

\* Number.prototype.toFixed(f) for 0 < f <= 3 and |x| < 10^21: "NaN" for NaN;
\* else a '-' when x < 0, then the integer n for which n / 10^f is nearest to
\* |x|, the larger one of two, written with f digits after the point.
ToFixed(x, f) ==
  IF x.nan THEN <<"N", "a", "N">>
  ELSE LET a == IF x.num < 0 THEN -x.num ELSE x.num
           q == (a * Pow10(f)) \div x.den
           r == (a * Pow10(f)) % x.den
           n == IF 2 * r >= x.den THEN q + 1 ELSE q
       IN (IF x.num < 0 THEN <<"-">> ELSE <<>>)
          \o NaturalText(n \div Pow10(f)) \o <<".">> \o PaddedText(n % Pow10(f), f)

\* filteredPosts.reduce((sum, post) => sum + post[field], 0)
RECURSIVE SumOf(_, _)
SumOf(ps, field) ==
  IF ps = <<>> THEN 0 ELSE ps[1][field] + SumOf(Tail(ps), field)

\* the tests of the three buckets (App.js 792-794, 905-907)
IsPositive(c) == c > Slight
IsNeutral_open(c) == c > -Slight /\ c < Slight
IsNeutral(c) == c >= -Slight /\ c <= Slight
IsNegative(c) == c < -Slight

\* the tests of the seven buckets (App.js 866-872)
IsVeryPositive(c) == c > Strong
IsClearlyPositive(c) == c > Clear /\ c <= Strong
IsSlightlyPositive(c) == c > Slight /\ c <= Clear
IsSlightlyNegative(c) == c >= -Clear /\ c < -Slight
IsClearlyNegative(c) == c >= -Strong /\ c < -Clear
IsVeryNegative(c) == c < -Strong

\* the test of the bucket on the compound c
InBucket(bucket, c) ==
  CASE bucket = "positive" -> IsPositive(c)
    [] bucket = "neutral" -> IsNeutral(c)
    [] bucket = "negative" -> IsNegative(c)
    [] bucket = "very positive" -> IsVeryPositive(c)
    [] bucket = "clearly positive" -> IsClearlyPositive(c)
    [] bucket = "slightly positive" -> IsSlightlyPositive(c)
    [] bucket = "slightly negative" -> IsSlightlyNegative(c)
    [] bucket = "clearly negative" -> IsClearlyNegative(c)
    [] bucket = "very negative" -> IsVeryNegative(c)

\* filteredPosts.filter(post => test of the bucket).length
CountWhere(ps, bucket) ==
  Cardinality({i \in 1..Len(ps) : InBucket(bucket, ps[i].sentiment_compound)})

NotAvailable == <<"N", "/", "A">>

statsData_unguarded(ps) ==
  LET total == Len(ps)
  IN [totalPosts |-> total,
      avgScore |-> ToFixed(Divide(SumOf(ps, "score"), 1, total), 2),
      avgComments |-> ToFixed(Divide(SumOf(ps, "num_comments"), 1, total), 2),
      avgSentiment |-> ToFixed(Divide(SumOf(ps, "sentiment_compound"), CompoundScale, total), 2),
      sentimentBreakdown |-> [positive |-> CountWhere(ps, "positive"),
                              neutral |-> CountWhere(ps, "neutral"),
                              negative |-> CountWhere(ps, "negative")]]

\* statsData (App.js 890-934), without topSubreddits and the percentages of
\* the breakdown
statsData(ps) ==
  IF Len(ps) = 0
  THEN [totalPosts |-> 0, avgScore |-> NotAvailable, avgComments |-> NotAvailable,
        avgSentiment |-> NotAvailable,
        sentimentBreakdown |-> [positive |-> 0, neutral |-> 0, negative |-> 0]]
  ELSE LET total == Len(ps)
       IN [totalPosts |-> total,
           avgScore |-> ToFixed(Divide(SumOf(ps, "score"), 1, total), 2),
           avgComments |-> ToFixed(Divide(SumOf(ps, "num_comments"), 1, total), 2),
           avgSentiment |->
             ToFixed(Divide(SumOf(ps, "sentiment_compound"), CompoundScale, total), 2),
           sentimentBreakdown |-> [positive |-> CountWhere(ps, "positive"),
                                   neutral |-> CountWhere(ps, "neutral"),
                                   negative |-> CountWhere(ps, "negative")]]

\* The civil date of the day z, counted from 1970-01-01 (proleptic
\* Gregorian): from the day of the 400-year era (doe) the year of the era
\* (yoe), the day of the year counted from 1 March (doy) and the month
\* counted from March (mp).
YearOfEra(doe) == (doe - doe \div 1460 + doe \div 36524 - doe \div 146096) \div 365

DayOfYear(doe, yoe) == doe - (365 * yoe + yoe \div 4 - yoe \div 100)

CivilOf(era, yoe, doy, mp) ==
  [y |-> yoe + era * 400 + (IF mp >= 10 THEN 1 ELSE 0),
   m |-> IF mp < 10 THEN mp + 3 ELSE mp - 9,
   d |-> doy - (153 * mp + 2) \div 5 + 1]

CivilOfEra(era, doe) ==
  CivilOf(era, YearOfEra(doe), DayOfYear(doe, YearOfEra(doe)),
          (5 * DayOfYear(doe, YearOfEra(doe)) + 2) \div 153)

CivilFromDays(z) ==
  CivilOfEra((z + 719468) \div 146097, (z + 719468) - ((z + 719468) \div 146097) * 146097)

\* new Date(created_utc * 1000).toISOString().split('T')[0]: the UTC date of
\* the instant as YYYY-MM-DD.  The years of the timestamps that 32 bits hold
\* (1901 to 2038) are written with four digits.
ISODate(created) ==
  LET c == CivilFromDays(created \div SecondsPerDay)
  IN PaddedText(c.y, 4) \o <<"-">> \o PaddedText(c.m, 2) \o <<"-">> \o PaddedText(c.d, 2)

\* the UTF-16 code unit of a character of a date
CodeUnit(ch) ==
  CASE ch = "-" -> 45
    [] OTHER -> 48 + CHOOSE d \in 0..9 : DigitText(d) = ch

\* the order of Array.prototype.sort() without a comparator: a comes before
\* b when it is smaller by code units, a proper prefix being smaller
RECURSIVE TextBefore(_, _)
TextBefore(a, b) ==
  IF a = <<>> THEN b # <<>>
  ELSE IF b = <<>> THEN FALSE
  ELSE IF CodeUnit(a[1]) # CodeUnit(b[1]) THEN CodeUnit(a[1]) < CodeUnit(b[1])
  ELSE TextBefore(Tail(a), Tail(b))

\* the text is put into the sorted sequence of texts
RECURSIVE InsertText(_, _)
InsertText(sorted, t) ==
  IF sorted = <<>> THEN <<t>>
  ELSE IF TextBefore(t, sorted[1]) THEN <<t>> \o sorted
  ELSE <<sorted[1]>> \o InsertText(Tail(sorted), t)

SortTexts_unsorted(keys) == keys

\* keys.sort()
RECURSIVE SortTexts(_)
SortTexts(keys) ==
  IF keys = <<>> THEN <<>> ELSE InsertText(SortTexts(Tail(keys)), keys[1])

EmptyDay == [positive |-> 0, neutral |-> 0, negative |-> 0, total |-> 0, sentimentSum |-> 0]

\* the body of the forEach (App.js 807-833): the entry of the post's date is
\* made when it is not there, then its counter, total and sum are updated
AddToDay(byDay, post) ==
  LET date == ISODate(post.created_utc)
      known == \E i \in 1..Len(byDay.keys) : byDay.keys[i] = date
      keys == IF known THEN byDay.keys ELSE Append(byDay.keys, date)
      day == IF known THEN byDay.days[date] ELSE EmptyDay
      c == post.sentiment_compound
      counted == IF c > Slight THEN [day EXCEPT !.positive = @ + 1]
                 ELSE IF c < -Slight THEN [day EXCEPT !.negative = @ + 1]
                 ELSE [day EXCEPT !.neutral = @ + 1]
      updated == [counted EXCEPT !.total = @ + 1, !.sentimentSum = @ + c]
  IN [keys |-> keys,
      days |-> [k \in {keys[i] : i \in 1..Len(keys)} |->
                  IF k = date THEN updated ELSE byDay.days[k]]]

\* postsByDay after the forEach over the first n posts: the keys in the order
\* in which they were added, and the entry of each key
RECURSIVE PostsByDay(_, _)
PostsByDay(ps, n) ==
  IF n = 0 THEN [keys |-> <<>>, days |-> <<>>]
  ELSE AddToDay(PostsByDay(ps, n - 1), ps[n])

\* case 'sentimentOverTime' (App.js 803-849)
SentimentOverTime(ps) ==
  LET byDay == PostsByDay(ps, Len(ps))
      dates == SortTexts(byDay.keys)
  IN [i \in 1..Len(dates) |->
        LET dayData == byDay.days[dates[i]]
        IN [date |-> dates[i], positive |-> dayData.positive, neutral |-> dayData.neutral,
            negative |-> dayData.negative,
            avgSentiment |-> Divide(dayData.sentimentSum, CompoundScale, dayData.total)]]

\* the charts whose data the properties read; 'engagementVsSentiment' (App.js
\* 851-863), a list of the ten posts of highest score, is not modelled
VisualizationTypes == {"sentimentDistribution", "sentimentOverTime", "sentimentPie"}

\* visualizationData (App.js 787-887)
visualizationData(ps, type) ==
  IF Len(ps) = 0 THEN <<>>
  ELSE CASE type = "sentimentDistribution" ->
              << [name |-> "Positive", value |-> CountWhere(ps, "positive")],
                 [name |-> "Neutral", value |-> CountWhere(ps, "neutral")],
                 [name |-> "Negative", value |-> CountWhere(ps, "negative")] >>
         [] type = "sentimentOverTime" -> SentimentOverTime(ps)
         [] type = "sentimentPie" ->
              << [name |-> "Very Positive", value |-> CountWhere(ps, "very positive")],
                 [name |-> "Positive", value |-> CountWhere(ps, "clearly positive")],
                 [name |-> "Slightly Positive", value |-> CountWhere(ps, "slightly positive")],
                 [name |-> "Neutral", value |-> CountWhere(ps, "neutral")],
                 [name |-> "Slightly Negative", value |-> CountWhere(ps, "slightly negative")],
                 [name |-> "Negative", value |-> CountWhere(ps, "clearly negative")],
                 [name |-> "Very Negative", value |-> CountWhere(ps, "very negative")] >>
         [] OTHER -> <<>>

(***************************************************************************)
(* SpecViz: the projections of one collection, for every collection of the *)
(* bounded set below.                                                      *)
(***************************************************************************)
\* compound values at, next to and between the bounds of the buckets
VizCompounds ==
  {-1000, -601, -600, -599, -201, -200, -199, -51, -50, -49, 0,
   49, 50, 51, 199, 200, 201, 599, 600, 601, 1000}

\* instants at the ends of days, months and years, before and after 1970
VizInstants ==
  {-1, 0, 86399, 86400, 1704067199, 1704067200, 1709164800, 1709251200,
   1728432000, 1728518400}

\* The posts: the two of the example (score 10, 2 comments, 0.8; score -5, no
\* comment, -0.7), one for each compound value on one day, and one for each
\* instant with a compound that makes the means round up or down.
VizPosts ==
  {PostOf(10, 2, 800, 1704067200), PostOf(-5, 0, -700, 1704067200)}
  \cup {PostOf(1, 1, c, 1709164800) : c \in VizCompounds}
  \cup {PostOf(3, 0, 125, t) : t \in VizInstants}
  \cup {PostOf(-2, 5, -4, t) : t \in {-1, 1704067199}}

\* the sequences of at most n posts
RECURSIVE VizCollections(_)
VizCollections(n) ==
  IF n = 0 THEN {<<>>}
  ELSE LET shorter == VizCollections(n - 1)
       IN shorter \cup {Append(ps, p) : ps \in {qs \in shorter : Len(qs) = n - 1}, p \in VizPosts}

VizInit == vizIn \in VizCollections(MaxVizLen) /\ vizOut = NoViz

\* a render of the App with filteredPosts = vizIn and visualizationType = type
\* computes both memos
Visualize ==
  /\ ~vizOut.done
  /\ \E type \in VisualizationTypes :
       vizOut' = [done |-> TRUE, type |-> type, data |-> visualizationData(vizIn, type),
                  stats |-> statsData(vizIn)]
  /\ UNCHANGED <<fields, vizIn, savedIn, savedOut>>
  /\ UNCHANGED <<appVars, efVars, qVars, sortVars, cVars, authVars>>

(***************************************************************************)
(* SpecSaved: one saved filter, from the submit of the SaveFilterModal to  *)
(* the Apply button of the SavedFiltersPanel, for every pair of views of   *)
(* the bounded set below: the view when the filter is saved and the view   *)
(* when it is applied.  The handlers are those of a render with a user;    *)
(* the server stores the body it is sent and lists it back.                *)
(***************************************************************************)
SavedViews ==
  { ViewOf([DefaultFilters EXCEPT !.searchTerm = term, !.minScore = score],
           [DefaultSearchOptions EXCEPT !.searchMethod = method], sc) :
      term \in SearchTerms, score \in {"", "5"}, method \in {"database", "live"},
      sc \in {DefaultSortConfig, [key |-> "score", direction |-> "asc"]} }

SavedInit == savedIn \in [saved : SavedViews, current : SavedViews] /\ savedOut = NoApply

\* the App with the first page of view v displayed and no call outstanding
ViewState(v) ==
  [InitialState EXCEPT !.loading = FALSE, !.posts = Body(1, 10),
                       !.filteredPosts = Body(1, 10), !.issued = 1, !.newestApplied = 1,
                       !.filters = v.filters, !.fetchFilters = v.filters,
                       !.searchOptions = v.searchOptions, !.sortConfig = v.sortConfig,
                       !.isLiveSearch = UseLiveSearch(v.filters, v.searchOptions)]

\* <SaveFilterModal currentFilters={filters} /> (App.js 2289-2293)
CurrentFilters(s) == s.filters

\* body: JSON.stringify({ name, filter_config: filterConfig }) (AuthContext.js
\* 163), as the server stores it under the id it assigns
SavedFilter(id, name, filterConfig) ==
  [id |-> id, name |-> name, filter_config |-> filterConfig]

\* handleSubmit of the SaveFilterModal (SaveFilterModal.js 15-42) with a
\* filter name entered: saveFilter(filterName, currentFilters) and its answer,
\* a 2xx after the server has stored the filter or a failure
SaveSubmit ==
  /\ savedOut.phase = "none"
  /\ \E success \in BOOLEAN :
       savedOut' =
         IF success
         THEN [phase |-> "saved",
               stored |-> SavedFilter(1, "mine", CurrentFilters(ViewState(savedIn.saved)))]
         ELSE [phase |-> "failed"]
  /\ UNCHANGED <<fields, vizIn, vizOut, savedIn>>
  /\ UNCHANGED <<appVars, efVars, qVars, sortVars, cVars, authVars>>

\* object.key is not undefined
HasField(object, key) == key \in DOMAIN object

\* {}
EmptyObject == EmptyParams

\* handleApplySavedSearch(search) (App.js 736-744)
handleApplySavedSearch(s, search) ==
  IF HasField(search, "filter_config")
  THEN LET config == search.filter_config
           newFilters == IF HasField(config, "filters") THEN config.filters ELSE EmptyObject
       IN fetchPosts(
            [s EXCEPT !.filters = newFilters,
                      !.searchOptions = IF HasField(config, "searchOptions")
                                        THEN config.searchOptions ELSE @,
                      !.sortConfig = IF HasField(config, "sortConfig")
                                     THEN config.sortConfig ELSE @],
            s, TRUE, newFilters)
  ELSE s

\* The Apply button of a filter of the SavedFiltersPanel:
\* onClick={() => onApplyFilter(filter.filter_config)} (AuthContext.js 329),
\* onApplyFilter being handleApplySavedSearch (App.js 1368); then the render.
ApplyClick ==
  /\ savedOut.phase = "saved"
  /\ LET s == ViewState(savedIn.current)
         search == savedOut.stored.filter_config
         t == Render(s, handleApplySavedSearch(s, search),
                     IF HasField(search, "filter_config") THEN "filters" ELSE "")
     IN savedOut' = [phase |-> "applied", stored |-> savedOut.stored,
                     filters |-> t.filters, requests |-> {c.req : c \in t.calls}]
  /\ UNCHANGED <<fields, vizIn, vizOut, savedIn>>
  /\ UNCHANGED <<appVars, efVars, qVars, sortVars, cVars, authVars>>

(***************************************************************************)
(* SpecAccount: the authenticated operations of the provider               *)
(* (updatePreferences, saveFilter, getSavedFilters, deleteFilter) and the  *)
(* SavedFiltersPanel that calls two of them.                               *)
(***************************************************************************)
Operations == {"updatePreferences", "saveFilter", "getSavedFilters", "deleteFilter"}

\* the answers to an authenticated request: those of AuthAnswers, with the
\* 401 of a rejected token told apart from the other non-2xx responses
OperationAnswers == AuthAnswers \cup {"401"}

\* the guard of every operation: if (!currentUser) (AuthContext.js 121, 151,
\* 177, 203); if (!token || !currentUser) (part_000 134, 170, 203, 232)
Admitted ==
  IF provider = "AuthContext.js" THEN currentUser # NoUser
  ELSE authToken # NoToken /\ currentUser # NoUser

NotAdmittedMessage ==
  IF provider = "AuthContext.js" THEN "Not logged in" ELSE "Not authenticated"

\* the message that the catch block of an operation returns
CaughtOperation(op) ==
  IF provider = "AuthContext.js" THEN "Network error"
  ELSE IF op = "updatePreferences" THEN "Failed to update preferences"
  ELSE IF op = "saveFilter" THEN "Failed to save filter"
  ELSE IF op = "getSavedFilters" THEN "Failed to get filters"
  ELSE "Failed to delete filter"

\* An operation is called with arg, by the panel instance with the filters
\* list of its render, or by another caller (instance 0): the part up to
\* `await fetch`.  The call keeps the token read from the storage and the
\* currentUser of the closure; a call that the guard refuses returns its
\* failure result when the promise resolves.
Call(op, arg, instance, list) ==
  /\ opsIssued < MaxOperations
  /\ opsIssued' = opsIssued + 1
  /\ authCalls' = authCalls \cup
                    {[kind |-> op, seq |-> opsIssued + 1, token |-> authToken,
                      userData |-> currentUser, admitted |-> Admitted, arg |-> arg,
                      instance |-> instance, list |-> list]}
  /\ authEvent' = [NoAuthEvent EXCEPT !.type = "called", !.call = op]
  /\ UNCHANGED <<provider, authToken, userData, currentUser, authLoading, authError,
                 authIssued, lastSent, preferences>>

\* updatePreferences(preferences), as the App calls it while a user is logged
\* in (App.js 573-577, 649-654)
UpdatePreferences ==
  /\ currentUser # NoUser
  /\ \E p \in NewPreferences : Call("updatePreferences", p, 0, {})
  /\ UNCHANGED panel
  /\ UNCHANGED <<appVars, efVars, qVars, sortVars, cVars, viewVars>>

\* saveFilter(name, filterConfig)
SaveFilter ==
  /\ currentUser # NoUser
  /\ Call("saveFilter", 3, 0, {})
  /\ UNCHANGED panel
  /\ UNCHANGED <<appVars, efVars, qVars, sortVars, cVars, viewVars>>

\* The panel is rendered for a user ({currentUser && ...}, App.js 1365) and
\* its mount effect runs loadFilters (AuthContext.js 275-282): setLoading(true),
\* setError(''), getSavedFilters().
MountPanel ==
  /\ currentUser # NoUser
  /\ ~panel.mounted
  /\ panel' = [mounted |-> TRUE, instance |-> panel.instance + 1, filters |-> {},
               loading |-> TRUE, error |-> ""]
  /\ Call("getSavedFilters", 0, panel.instance + 1, {})
  /\ UNCHANGED <<appVars, efVars, qVars, sortVars, cVars, viewVars>>

\* the list of the panel is on the page: past `if (loading)`, `if (error)`
\* and `if (filters.length === 0)` (AuthContext.js 299-316)
ListShown == panel.mounted /\ ~panel.loading /\ panel.error = "" /\ panel.filters # {}

\* handleDeleteFilter(filterId) with window.confirm answered OK, up to
\* `await deleteFilter(filterId)` (AuthContext.js 286-288)
HandleDeleteFilter ==
  /\ ListShown
  /\ \E id \in panel.filters : Call("deleteFilter", id, panel.instance, panel.filters)
  /\ UNCHANGED panel
  /\ UNCHANGED <<appVars, efVars, qVars, sortVars, cVars, viewVars>>

\* what the call c returns for the answer and the message of the error body
OperationResult(c, answer, body) ==
  IF ~c.admitted THEN Failure(NotAdmittedMessage)
  ELSE IF answer = "2xx" THEN Success
  ELSE IF answer = "network" THEN Failure(CaughtOperation(c.kind))
  ELSE Failure(IF body # "" THEN body ELSE "undefined")

\* result.message || fallback, in the panel
PanelMessage(result, fallback) ==
  IF result.message \in {"", "undefined"} THEN fallback ELSE result.message

\* The continuation of loadFilters and of handleDeleteFilter in the panel
\* (AuthContext.js 281-296), with the result of the operation.
\* handleDeleteFilter filters the list of the render in which it was called.
panelContinues(c, result) ==
  IF ~(panel.mounted /\ panel.instance = c.instance) THEN panel
  ELSE IF c.kind = "getSavedFilters"
       THEN IF result.success
            THEN [panel EXCEPT !.loading = FALSE, !.filters = ServerFilters]
            ELSE [panel EXCEPT !.loading = FALSE,
                               !.error = PanelMessage(result, "Failed to load saved filters")]
  ELSE IF c.kind = "deleteFilter"
       THEN IF result.success
            THEN [panel EXCEPT !.filters = c.list \ {c.arg}]
            ELSE [panel EXCEPT !.error = PanelMessage(result, "Failed to delete filter")]
  ELSE panel

operation_optimistic(c, answer, body) ==
  /\ currentUser' = IF c.kind = "updatePreferences" THEN c.userData ELSE currentUser
  /\ preferences' = IF c.kind = "updatePreferences" THEN c.arg ELSE preferences
  /\ userData' = IF c.kind = "updatePreferences" /\ provider = "part_000"
                 THEN c.userData ELSE userData
  /\ panel' = panelContinues(c, IF c.kind = "deleteFilter" THEN Success
                                ELSE OperationResult(c, answer, body))
  /\ authEvent' = [NoAuthEvent EXCEPT !.type = "answered", !.call = c.kind,
                                      !.answer = answer,
                                      !.result = OperationResult(c, answer, body)]
  /\ UNCHANGED <<authToken, authError>>

\* The continuation of the operation c (AuthContext.js 120-226, part_000
\* 130-258).  Only updatePreferences changes the provider, and only on a 2xx
\* response: setCurrentUser({ ...currentUser, preferences }) with the
\* currentUser of its closure (and setItem('userData') in part_000).  No
\* response removes the token or sets the error of the provider.
operation(c, answer, body) ==
  LET result == OperationResult(c, answer, body)
      updated == c.kind = "updatePreferences" /\ result.success
  IN /\ currentUser' = IF updated THEN c.userData ELSE currentUser
     /\ preferences' = IF updated THEN c.arg ELSE preferences
     /\ userData' = IF updated /\ provider = "part_000" THEN c.userData ELSE userData
     /\ panel' = panelContinues(c, result)
     /\ authEvent' = [NoAuthEvent EXCEPT !.type = "answered", !.call = c.kind,
                                         !.answer = answer, !.result = result]
     /\ UNCHANGED <<authToken, authError>>

\* an operation is answered, or its refused call returns
OperationAnswer ==
  /\ \E c \in {d \in authCalls : d.kind \in Operations} :
       \E answer \in IF c.admitted THEN OperationAnswers ELSE {"none"} :
         \E body \in IF answer \in {"non-2xx", "401"} THEN ErrorBodies ELSE {""} :
           /\ operation(c, answer, body)
           /\ authCalls' = authCalls \ {c}
  /\ UNCHANGED <<provider, authLoading, authIssued, lastSent, opsIssued>>
  /\ UNCHANGED <<appVars, efVars, qVars, sortVars, cVars, viewVars>>

(***************************************************************************)
(* SpecSession: the App inside the provider (index.js 15-21).  The App     *)
(* reads currentUser and the operations of the provider with useAuth       *)
(* (App.js 156-163), and currentUser is a dependency of enhancedFetch      *)
(* (App.js 247) and of the mount/update effect (App.js 504).               *)
(***************************************************************************)
\* the operations that the value of the provider holds (AuthContext.js
\* 229-240, part_000 260-273)
ContextOperations ==
  {"login", "register", "logout", "updatePreferences", "saveFilter", "getSavedFilters",
   "deleteFilter"}

\* The render of the App with a new currentUser and the run of its
\* mount/update effect (App.js 455-504).  With a user the effect calls
\* getSavedSearches(), which useAuth() does not provide: the call of undefined
\* raises a TypeError inside the effect, no error boundary is there, and React
\* unmounts the tree, running the cleanups as in Unmount.  Without a user the
\* effect goes on to fetchPosts(true, filters) with the callbacks remade for
\* the new currentUser.
UserEffect(s, user) ==
  IF ~s.mounted THEN s
  ELSE IF user # NoUser /\ "getSavedSearches" \notin ContextOperations
       THEN [s EXCEPT !.mounted = FALSE,
                      !.timers = {t \in @ : t.id # s.autoRefreshTimer},
                      !.lastEvent = [NoEvent EXCEPT !.type = "effect error"]]
       ELSE Render(s, fetchPosts([s EXCEPT !.fetchFilters = s.filters],
                                 [s EXCEPT !.fetchFilters = s.filters], TRUE, s.filters), "")

\* the App renders again when the provider has a new currentUser
AppSeesUser ==
  IF currentUser' # currentUser
  THEN Step(UserEffect(State, currentUser'))
  ELSE UNCHANGED appVars

\* the profile request is answered while the App is inside the provider
SessionProfileAnswer ==
  /\ ProfileContinues
  /\ AppSeesUser
  /\ UNCHANGED <<efVars, qVars, sortVars, cVars, viewVars>>

\* the AuthModal is opened from the header of the main screen (App.js
\* 1318-1350) and its form is submitted
SessionLoginSubmit ==
  /\ MainScreen(State)
  /\ LoginSubmit

\* a login or register call is answered while the App is inside the provider
SessionLoginAnswer ==
  /\ LoginContinues
  /\ AppSeesUser
  /\ UNCHANGED <<efVars, qVars, sortVars, cVars, viewVars>>

(***************************************************************************)
(* The specifications.                                                     *)
(***************************************************************************)
Init == AppInit /\ FetchIdle /\ QueryIdle /\ SortIdle /\ CommentsIdle /\ ViewIdle /\ AuthIdle

Next ==
  \/ HandleSearchChange
  \/ HandleSearchOptionsChange
  \/ HandleFilterSubmit
  \/ RetryClick
  \/ LoadMoreClick
  \/ HandleScroll
  \/ SetPostsPerPage
  \/ FetchPostsAnswer

Spec == Init /\ [][Next]_vars

\* SpecPaging: the App with the paging triggers and the filter submit only,
\* and a larger budget of calls
InitResort ==
  AppStarts([Mounted EXCEPT !.budget = MaxResortCalls]) /\ FetchIdle /\ QueryIdle
  /\ SortIdle /\ CommentsIdle /\ ViewIdle /\ AuthIdle

NextResort == Next \/ RequestSort

SpecResort == InitResort /\ [][NextResort]_vars

InitPaging ==
  AppStarts([Mounted EXCEPT !.budget = MaxPagingCalls]) /\ FetchIdle /\ QueryIdle
  /\ SortIdle /\ CommentsIdle /\ ViewIdle /\ AuthIdle

NextPaging ==
  \/ LoadMoreClick
  \/ HandleScroll
  \/ HandleFilterSubmit
  \/ FetchPostsReturns

SpecPaging == InitPaging /\ [][NextPaging]_vars

InitRefresh ==
  AppStarts([Mounted EXCEPT !.budget = MaxRefreshCalls]) /\ FetchIdle /\ QueryIdle
  /\ SortIdle /\ CommentsIdle /\ ViewIdle /\ AuthIdle

NextRefresh ==
  \/ HandleSearchChange
  \/ HandleSearchOptionsChange
  \/ HandleAutoRefreshChange
  \/ TimerTick
  \/ Unmount
  \/ FetchPostsReturns

SpecRefresh == InitRefresh /\ [][NextRefresh]_vars

InitVisible ==
  AppStarts([Mounted EXCEPT !.budget = MaxVisibleCalls]) /\ FetchIdle /\ QueryIdle
  /\ SortIdle /\ CommentsIdle /\ ViewIdle /\ AuthIdle

NextVisible ==
  \/ HandleSearchChange
  \/ HandleSearchOptionsChange
  \/ HandleAutoRefreshChange
  \/ TimerTick
  \/ VisibilityChange
  \/ FetchPostsReturns

SpecVisible == InitVisible /\ [][NextVisible]_vars

InitComments ==
  AppStarts([Mounted EXCEPT !.budget = 1]) /\ FetchIdle /\ QueryIdle
  /\ SortIdle /\ CommentsIdle /\ ViewIdle /\ AuthIdle

NextComments ==
  \/ FetchPostsReturns
  \/ OpenDetails
  \/ CloseDetails
  \/ LoadComments
  \/ CommentsAnswer

SpecComments == InitComments /\ [][NextComments]_vars

InitAuth == AppInit /\ FetchIdle /\ QueryIdle /\ SortIdle /\ CommentsIdle /\ ViewIdle /\ AuthInit

NextAuth ==
  \/ ProfileAnswer
  \/ LoginSubmit
  \/ LoginAnswer
  \/ Logout
  \/ EnhancedFetchSends

SpecAuth == InitAuth /\ [][NextAuth]_vars

InitForm ==
  AppInit /\ FetchIdle /\ QueryIdle /\ SortIdle /\ CommentsIdle /\ FormIdle /\ VizIdle
  /\ SavedIdle /\ AuthIdle

NextForm == HandleFilterChange

SpecForm == InitForm /\ [][NextForm]_vars

InitViz ==
  AppInit /\ FetchIdle /\ QueryIdle /\ SortIdle /\ CommentsIdle /\ FormIdle /\ SavedIdle
  /\ AuthIdle /\ VizInit

NextViz == Visualize

SpecViz == InitViz /\ [][NextViz]_vars

InitAccount == AppInit /\ FetchIdle /\ QueryIdle /\ SortIdle /\ CommentsIdle /\ ViewIdle /\ AuthInit

NextAccount ==
  \/ ProfileAnswer
  \/ Logout
  \/ UpdatePreferences
  \/ SaveFilter
  \/ MountPanel
  \/ HandleDeleteFilter
  \/ OperationAnswer

SpecAccount == InitAccount /\ [][NextAccount]_vars

InitSession ==
  AppStarts([Mounted EXCEPT !.budget = 1]) /\ FetchIdle /\ QueryIdle
  /\ SortIdle /\ CommentsIdle /\ ViewIdle /\ AuthInit

NextSession ==
  \/ SessionProfileAnswer
  \/ SessionLoginSubmit
  \/ SessionLoginAnswer
  \/ FetchPostsReturns

SpecSession == InitSession /\ [][NextSession]_vars

InitSaved ==
  AppInit /\ FetchIdle /\ QueryIdle /\ SortIdle /\ CommentsIdle /\ FormIdle /\ VizIdle
  /\ AuthIdle /\ SavedInit

NextSaved == SaveSubmit \/ ApplyClick

SpecSaved == InitSaved /\ [][NextSaved]_vars

\* SpecPages: the App with the paging triggers, the Next button of the
\* pagination, the filter submit, and every answer
InitPages ==
  AppStarts([Mounted EXCEPT !.budget = MaxPageCalls]) /\ FetchIdle /\ QueryIdle
  /\ SortIdle /\ CommentsIdle /\ ViewIdle /\ AuthIdle

NextPages ==
  \/ LoadMoreClick
  \/ HandleScroll
  \/ NextPageClick
  \/ HandleFilterSubmit
  \/ FetchPostsAnswer

SpecPages == InitPages /\ [][NextPages]_vars

InitFetch == AppInit /\ FetchIdle /\ QueryIdle /\ SortIdle /\ CommentsIdle /\ ViewIdle /\ AuthIdle

NextFetch == FetchAnswer

SpecFetch == InitFetch /\ [][NextFetch]_vars

\* SpecRetries: one call enhancedFetch(url, options, retries) for every
\* retries from 1 to MaxRetries.  Every attempt that is pending is answered:
\* fetch settles, or the timer of the attempt aborts it (App.js 197-198), and
\* the timers of the waits fire.
InitRetries ==
  AppInit /\ QueryIdle /\ SortIdle /\ CommentsIdle /\ ViewIdle /\ AuthIdle
  /\ efCall = enhancedFetchStart /\ efLog = <<>> /\ efRetries \in 1..MaxRetries

NextRetries == FetchAnswer

SpecRetries == InitRetries /\ [][NextRetries]_vars /\ WF_vars(FetchAnswer)

InitQuery == AppInit /\ FetchIdle /\ SortIdle /\ CommentsIdle /\ ViewIdle /\ AuthIdle /\ QueryInit

NextQuery == Build

SpecQuery == InitQuery /\ [][NextQuery]_vars

InitSort == AppInit /\ FetchIdle /\ QueryIdle /\ SortInit /\ CommentsIdle /\ ViewIdle /\ AuthIdle

NextSort == Sort

SpecSort == InitSort /\ [][NextSort]_vars

(***************************************************************************)
(* Properties of enhancedFetch, checked under SpecFetch.                   *)
(***************************************************************************)
LogIndexes == 1..Len(efLog)

\* the attempts of the log that failed otherwise than by a 429 or a timeout
GenuineFailures == {i \in LogIndexes : efLog[i].class \in {"http", "network", "badjson"}}

\* every answer so far was a non-429 non-2xx status or a transport failure
AllTransient == Len(efLog) > 0 /\ \A i \in LogIndexes : efLog[i].class \in {"http", "network"}

TimedOut == efCall.status = "thrown" /\ efCall.thrown = TimeoutError

\* C2: a 429 is followed by exactly one more attempt, after the Retry-After
\* wait (2 s for "2", 5 s without the header), and does not use up the budget:
\* a call that gives up without a timeout has seen as many failures other
\* than 429 as the budget allows.
C2_RateLimitKeepsBudget ==
  /\ \A i \in LogIndexes :
       efLog[i].class = "429" =>
         /\ efLog[i].retryAfter = <<2>> => efLog[i].wait = 2000
         /\ efLog[i].retryAfter = <<>> => efLog[i].wait = 5000
         /\ i < Len(efLog) \/ efCall.status = "pending"
  /\ (efCall.status = "thrown" /\ ~TimedOut) => Cardinality(GenuineFailures) >= DefaultRetries

C4_TimeoutFailsFast ==
  \A i \in LogIndexes :
    efLog[i].class = "abort" =>
      /\ i = Len(efLog)
      /\ efLog[i].wait = NoWait
      /\ efCall.status = "thrown"
      /\ efCall.thrown = TimeoutError

C4_Witness ==
  /\ Len(efLog) = 1
  /\ efLog[1].class = "abort"
  /\ efCall.attempt + 1 < DefaultRetries
  /\ TimedOut

(***************************************************************************)
(* Properties of the request built by fetchPosts, checked under SpecQuery. *)
(***************************************************************************)
Has(key) == key \in DOMAIN qOut.params

Listing == qOut.built /\ qOut.endpoint = "/posts"

\* C6: the request targets /search with q = searchTerm exactly when the search
\* term is non-empty and the method is 'live'; otherwise it targets /posts and
\* a non-empty term is passed as 'search'.
C6_LiveOnlyWhenTermAndMethod ==
  qOut.built =>
    LET term == qIn.filters.searchTerm
        live == term # "" /\ qIn.searchOptions.searchMethod = "live"
    IN /\ qOut.endpoint = (IF live THEN "/search" ELSE "/posts")
       /\ live => Has("q") /\ qOut.params["q"] = term /\ ~Has("search")
       /\ ~live => ~Has("q") /\ (Has("search") <=> term # "")
       /\ (~live /\ term # "") => qOut.params["search"] = term

C6_Witness ==
  /\ Listing
  /\ qIn.filters.searchTerm = "cats"
  /\ qIn.searchOptions.searchMethod = "database"
  /\ qOut.params["search"] = "cats"

OnlyScoreSet(f) ==
  /\ f.minComments = "" /\ f.maxComments = "" /\ f.sentiment = "" /\ f.searchTerm = ""
  /\ f.subreddit = "" /\ f.startDate = EmptyDate /\ f.endDate = EmptyDate

\* C7: with only minScore and/or maxScore set, whatever the search options,
\* the request targets /posts and has neither a 'search' nor a 'q' parameter.
C7_ScoreOnlyIsListing ==
  (qOut.built /\ OnlyScoreSet(qIn.filters)) =>
    /\ qOut.endpoint = "/posts"
    /\ ~Has("search")
    /\ ~Has("q")

C7_Witness ==
  /\ qOut.built
  /\ OnlyScoreSet(qIn.filters)
  /\ qIn.filters.minScore = "5"
  /\ qIn.searchOptions.searchMethod = "live"
  /\ qOut.params["min_score"] = "5"

\* the date string names a day of the calendar
ValidDay(ds) == ds.shape = "ymd" /\ ds.m \in 1..12 /\ ds.d \in 1..DaysInMonth(ds.y, ds.m)

\* C8: for every valid endDate of a listing request, end_date is the timestamp
\* of midnight UTC of that day plus 86400; 2024-01-01 as start and end gives
\* start_date 1704067200 and end_date 1704153600 (2024-01-02T00:00:00Z).
C8_EndDateInclusive ==
  Listing =>
    /\ ValidDay(qIn.filters.endDate) =>
         /\ Has("end_date")
         /\ qOut.params["end_date"] =
              ToString(86400 * DaysFromCivil(qIn.filters.endDate.y, qIn.filters.endDate.m,
                                             qIn.filters.endDate.d) + 86400)
    /\ (qIn.filters.startDate = Ymd(2024, 1, 1) /\ qIn.filters.endDate = Ymd(2024, 1, 1)) =>
         /\ Has("start_date") /\ qOut.params["start_date"] = "1704067200"
         /\ Has("end_date") /\ qOut.params["end_date"] = "1704153600"

\* C9: a date bound of a listing request is omitted exactly when its date
\* string is empty or does not parse; every date that parses, also one whose
\* midnight is timestamp 0, yields its parameter.
C9_BoundOmittedIffUnparsable ==
  Listing =>
    /\ Has("start_date") <=> ValidDay(qIn.filters.startDate)
    /\ Has("end_date") <=> ValidDay(qIn.filters.endDate)

(***************************************************************************)
(* Properties of the App, checked under Spec.                              *)
(***************************************************************************)
\* C1: a response is applied only if no response of a call issued later has
\* been applied before it: the response of an earlier call never replaces
\* the state that the response of a later call produced.
C1_LatestResponseWins ==
  lastEvent.type = "applied" => lastEvent.seq = newestApplied

\* C5: a fetchPosts call that does not succeed ends with error set to a value
\* with a message, loading and loadingMore false, and no exception escaping.
C5_FailureBecomesErrorState ==
  lastEvent.type = "failed" =>
    /\ ~lastEvent.escaped
    /\ error.set
    /\ error.message # ""
    /\ ~loading
    /\ ~loadingMore

\* C10: a successful Reset leaves the collection equal to the response, the
\* page counter 1 and hasMore = (response length = requested page size); so
\* applying the response once more changes nothing.
C10_ResetDependsOnResponseOnly ==
  /\ (lastEvent.type = "applied" /\ lastEvent.reset) =>
       /\ posts = lastEvent.body
       /\ currentPage = 1
       /\ hasMore = (Len(lastEvent.body) = lastEvent.pageSize)
  /\ \A c \in calls : \A n \in BodyLengths :
       c.resetPage =>
         LET once == ApplyResponse(State, c, Body(c.seq, n))
             twice == ApplyResponse(once, c, Body(c.seq, n))
         IN /\ twice.posts = Body(c.seq, n)
            /\ twice.posts = once.posts
            /\ twice.hasMore = once.hasMore
            /\ twice.currentPage = once.currentPage

C10_Witness ==
  /\ lastEvent.type = "applied"
  /\ lastEvent.reset
  /\ lastEvent.seq > 1
  /\ Len(lastEvent.body) = 10
  /\ posts = lastEvent.body
  /\ postsPerPage = 25
  /\ hasMore

C12_PageAppliedOnce == ~lastEvent.twice

\* C13: a fetchPosts call that fails applies nothing: its continuation leaves
\* posts and hasMore alone, and when no call made after it is outstanding or
\* was applied, the page counter and isLiveSearch are what they were before
\* the call was made.
C13_FailureAppliesNothing ==
  [][lastEvent'.type = "failed" =>
       /\ posts' = posts
       /\ hasMore' = hasMore
       /\ (lastEvent'.seq > newestApplied' /\ \A d \in calls' : d.seq < lastEvent'.seq) =>
            /\ currentPage' = lastEvent'.before.page
            /\ isLiveSearch' = lastEvent'.before.live]_vars

\* C14: with a listing result held, every fetch that requestSort(key) causes is
\* a Reset whose sort_by and order are the key and direction of the updated
\* sortConfig, and there is such a fetch.
C14_SortFetchUsesNewConfig ==
  [][(lastEvent'.type = "sort" /\ ~isLiveSearch) =>
       /\ calls' \ calls # {}
       /\ \A c \in calls' \ calls :
            /\ c.resetPage
            /\ c.req.endpoint = "/posts" =>
                 /\ c.req.params["sort_by"] = sortConfig'.key
                 /\ c.req.params["order"] = sortConfig'.direction]_vars

(***************************************************************************)
(* Properties of the client-side sort, checked under SpecSort.             *)
(***************************************************************************)
\* the posts of a sequence, with the number of times each occurs
Occurrences(ps) == [p \in SortPostIds |-> Cardinality({i \in 1..Len(ps) : ps[i] = p})]

\* ps is ordered by key in the given direction: case-insensitively for the
\* string keys, numerically with a missing value as 0 for the others
OrderedBy(ps, key, direction) ==
  \A i \in 1..(Len(ps) - 1) : SortCompare(ps[i], ps[i + 1], key, direction) <= 0

\* C15: with a live result held, requestSort(key) issues no request and leaves
\* displayed a permutation of the collection, ordered by key in the direction
\* that it records in sortConfig.
C15_LiveSortFollowsSortConfig ==
  sortOut.done =>
    /\ sortOut.issued = 0
    /\ Occurrences(sortOut.filteredPosts) = Occurrences(sortIn.posts)
    /\ sortOut.sortConfig = NewSortConfig(sortIn.sortConfig, sortIn.key)
    /\ OrderedBy(sortOut.filteredPosts, sortIn.key, sortOut.sortConfig.direction)

(***************************************************************************)
(* Properties of the auto-refresh, checked under SpecRefresh.              *)
(***************************************************************************)
\* the last step was a tick of an interval that called fetchPosts
TickFetched == lastEvent'.type = "tick" /\ issued' > issued

\* C16: once autoRefresh is disabled, the App is unmounted or the search method
\* is no longer 'live', no tick of an auto-refresh timer issues a Reset fetch:
\* a tick issues one only in a state where the App is mounted, autoRefresh is
\* enabled and the search method is 'live'.
C16_TimerTornDown ==
  [][TickFetched =>
       /\ mounted
       /\ searchOptions.autoRefresh
       /\ searchOptions.searchMethod = "live"]_vars


\* the last step was a tick of an interval or a visibilitychange event
AutoRefreshEvent == lastEvent'.type \in {"tick", "visibility"}

C18_StaleCommentsDiscarded ==
  [][(comments' # comments /\ viewPost' # NoPost) =>
       \A i \in 1..Len(comments') : comments'[i].post_id = viewPost']_vars


(***************************************************************************)
(* Properties of the session, checked under SpecAuth.                      *)
(***************************************************************************)
\* C19: a request sent by enhancedFetch carries 'Authorization: Bearer <token>'
\* whenever a token is persisted, whatever the session state, and carries no
\* Authorization header when none is persisted.
C19_BearerWheneverTokenPersisted ==
  lastSent.sent =>
    lastSent.authorization =
      (IF lastSent.token # NoToken THEN "Bearer " \o lastSent.token ELSE NoHeader)

\* the last step was a non-2xx answer to the profile request
ProfileRejected == authEvent'.type = "profile" /\ authEvent'.answer = "non-2xx"

\* C20: at page load with a token persisted the profile request is in flight
\* with that token, and a non-2xx answer to it leaves no token persisted,
\* currentUser null and loading false.
C20_RejectedTokenEndsAnonymous ==
  /\ authToken # NoToken =>
       \E c \in authCalls : c.kind = "profile" /\ c.token = authToken
  /\ [][ProfileRejected =>
          /\ authToken' = NoToken
          /\ currentUser' = NoUser
          /\ ~authLoading']_vars


\* the last step was a 2xx answer to the profile request
ProfileAccepted == authEvent'.type = "profile" /\ authEvent'.answer = "2xx"

\* C21: a 2xx answer to the profile request makes the session Authenticated
\* with the user of that response: currentUser is the user object the response
\* carries, not one read from elsewhere.
C21_UserComesFromProfileResponse ==
  [][ProfileAccepted => currentUser' = ProfileUser]_vars


\* the last step was the answer to a login or register call
LoginAnswered == authEvent'.type = "logged"

SessionOpened == currentUser = NoUser /\ currentUser' # NoUser

\* C23: logout is invoked while the saved-filter list is displayed, so an
\* Authenticated session has the App and its sidebar on the page: a step that
\* sets currentUser leaves the App mounted, for the panel to be rendered once
\* the posts are loaded and for logout to be offered.  (Logout then removes
\* the token, sets currentUser to null and hides the panel without a request.)
C23_PanelShownUntilLogout ==
  [][SessionOpened => mounted']_vars


\* the last step was a 401 answer to an authenticated operation
Unauthorized == authEvent'.type = "answered" /\ authEvent'.answer = "401"

\* C24: an authenticated request answered with 401 ends the session: the
\* stored token is removed and currentUser becomes null.
C24_UnauthorizedEndsSession ==
  [][Unauthorized => authToken' = NoToken /\ currentUser' = NoUser]_vars


\* the local state that the operations maintain
LocalState == <<currentUser, preferences, panel.filters>>

\* the last step called an operation, up to its request
OperationCalled == authEvent'.type = "called"

\* the last step was the return of an operation that the server did not
\* confirm
OperationFailed == authEvent'.type = "answered" /\ authEvent'.answer # "2xx"

C26_NumericFieldsParse ==
  \A name \in NumericFields : fields[name] = <<>> \/ ParsesAsInteger(fields[name])


\* the projections of the collection have been computed
Visualized == vizOut.done

\* the three averages of statsData
Averages == {vizOut.stats.avgScore, vizOut.stats.avgComments, vizOut.stats.avgSentiment}

\* C27: for an empty collection statsData has 'N/A' for avgScore, avgComments
\* and avgSentiment and 0 for totalPosts and the positive, neutral and negative
\* counts; nothing is divided by zero, so no average is NaN.
C27_EmptyStats ==
  (Visualized /\ vizIn = <<>>) =>
    /\ Averages = {NotAvailable}
    /\ ToFixed(NaN, 2) \notin Averages
    /\ vizOut.stats.totalPosts = 0
    /\ vizOut.stats.sentimentBreakdown = [positive |-> 0, neutral |-> 0, negative |-> 0]

\* the statistics of the empty collection have been computed
C27_Witness ==
  Visualized /\ vizIn = <<>> /\ vizOut.stats.avgScore = NotAvailable


\* the value of a run of decimal digits
RECURSIVE DigitsValue(_)
DigitsValue(t) ==
  IF t = <<>> THEN 0 ELSE 10 * DigitsValue(SubSeq(t, 1, Len(t) - 1)) + (CodeUnit(t[Len(t)]) - 48)

\* the number that a text with two decimals denotes, in hundredths
Hundredths(t) ==
  LET digits == IF t[1] = "-" THEN Tail(t) ELSE t
      point == Len(digits) - 2
      value == 100 * DigitsValue(SubSeq(digits, 1, point - 1))
               + DigitsValue(SubSeq(digits, point + 1, Len(digits)))
  IN IF t[1] = "-" THEN -value ELSE value

\* the text has two decimals and no hundredth is nearer to sum / den
IsMeanRounded(t, sum, den) ==
  /\ Len(t) >= 4
  /\ t[Len(t) - 2] = "."
  /\ LET diff == 100 * sum - Hundredths(t) * den
     IN 2 * (IF diff < 0 THEN -diff ELSE diff) <= den

\* the two posts of the example
ExamplePosts == <<PostOf(10, 2, 800, 1704067200), PostOf(-5, 0, -700, 1704067200)>>

\* C28: for a non-empty collection avgScore, avgComments and avgSentiment are
\* the sum of score, num_comments and sentiment_compound over the posts,
\* divided by the number of posts and rounded to two decimals; the posts
\* (10, 2, 0.8) and (-5, 0, -0.7) give positive 1, neutral 0, negative 1, a
\* mean score of 2.5 and a mean sentiment of 0.05.
C28_MeansRounded ==
  (Visualized /\ vizIn # <<>>) =>
    /\ IsMeanRounded(vizOut.stats.avgScore, SumOf(vizIn, "score"), Len(vizIn))
    /\ IsMeanRounded(vizOut.stats.avgComments, SumOf(vizIn, "num_comments"), Len(vizIn))
    /\ IsMeanRounded(vizOut.stats.avgSentiment, SumOf(vizIn, "sentiment_compound"),
                     CompoundScale * Len(vizIn))
    /\ vizIn = ExamplePosts =>
         /\ vizOut.stats.sentimentBreakdown = [positive |-> 1, neutral |-> 0, negative |-> 1]
         /\ Hundredths(vizOut.stats.avgScore) = 250
         /\ Hundredths(vizOut.stats.avgSentiment) = 5

\* the statistics of the example have been computed: the mean score is shown
\* as 2.50
C28_Witness ==
  Visualized /\ vizIn = ExamplePosts /\ vizOut.stats.avgScore = <<"2", ".", "5", "0">>


\* the sum of the values of the buckets i to j of the chart
RECURSIVE BucketSum(_, _, _)
BucketSum(data, i, j) ==
  IF i > j THEN 0 ELSE data[i].value + BucketSum(data, i + 1, j)

\* C29: the three buckets and the seven buckets are partitions of the
\* collection, also for compound values on the bounds 0.05, 0.2 and 0.6 and
\* their negatives: the counts of either chart add up to the number of posts,
\* and the three positive (negative) buckets of the seven add up to the
\* positive (negative) bucket of the three.
C29_BucketsPartition ==
  (Visualized /\ vizIn # <<>>) =>
    /\ vizOut.type = "sentimentDistribution" =>
         /\ Len(vizOut.data) = 3
         /\ BucketSum(vizOut.data, 1, 3) = Len(vizIn)
    /\ vizOut.type = "sentimentPie" =>
         /\ Len(vizOut.data) = 7
         /\ BucketSum(vizOut.data, 1, 7) = Len(vizIn)
         /\ BucketSum(vizOut.data, 1, 3) = vizOut.stats.sentimentBreakdown.positive
         /\ vizOut.data[4].value = vizOut.stats.sentimentBreakdown.neutral
         /\ BucketSum(vizOut.data, 5, 7) = vizOut.stats.sentimentBreakdown.negative
    /\ LET b == vizOut.stats.sentimentBreakdown
       IN b.positive + b.neutral + b.negative = Len(vizIn)

\* the seven buckets of two posts with the compounds 0.05 and -0.2: one is
\* Neutral and one Slightly Negative
C29_Witness ==
  /\ Visualized
  /\ vizOut.type = "sentimentPie"
  /\ Len(vizIn) = 2
  /\ vizIn[1].sentiment_compound = Slight
  /\ vizIn[2].sentiment_compound = -Clear
  /\ vizOut.data[4].value = 1
  /\ vizOut.data[5].value = 1


\* the day of an instant, counted from 1970-01-01
DayOf(created) == created \div SecondsPerDay

\* the day that a date YYYY-MM-DD names
DayNamed(date) ==
  DaysFromCivil(DigitsValue(SubSeq(date, 1, 4)), DigitsValue(SubSeq(date, 6, 7)),
                DigitsValue(SubSeq(date, 9, 10)))

\* the positions in the collection of the posts created on the day
PostsOn(day) == {i \in 1..Len(vizIn) : DayOf(vizIn[i].created_utc) = day}

\* the sum of the compound scores of the posts at the positions
RECURSIVE CompoundSum(_)
CompoundSum(positions) ==
  IF positions = {} THEN 0
  ELSE LET i == CHOOSE j \in positions : TRUE
       IN vizIn[i].sentiment_compound + CompoundSum(positions \ {i})

\* C30: sentimentOverTime has one entry for each calendar day with a post and
\* no other, the entries are in strictly ascending order of their days, the
\* positive, neutral and negative counts of an entry add up to the number of
\* posts of its day, and its avgSentiment is the mean of their compounds.
C30_OneEntryPerDay ==
  (Visualized /\ vizIn # <<>> /\ vizOut.type = "sentimentOverTime") =>
    LET data == vizOut.data
    IN /\ {DayNamed(data[i].date) : i \in 1..Len(data)}
            = {DayOf(vizIn[i].created_utc) : i \in 1..Len(vizIn)}
       /\ \A i, j \in 1..Len(data) : i < j => DayNamed(data[i].date) < DayNamed(data[j].date)
       /\ \A i \in 1..Len(data) :
            LET on == PostsOn(DayNamed(data[i].date))
                avg == data[i].avgSentiment
            IN /\ Len(data[i].date) = 10
               /\ data[i].positive + data[i].neutral + data[i].negative = Cardinality(on)
               /\ ~avg.nan
               /\ avg.num * CompoundScale * Cardinality(on) = CompoundSum(on) * avg.den

\* two posts of different days, the later one first in the collection, give
\* two entries with the earlier day first
C30_Witness ==
  /\ Visualized
  /\ vizOut.type = "sentimentOverTime"
  /\ Len(vizIn) = 2
  /\ DayOf(vizIn[1].created_utc) > DayOf(vizIn[2].created_utc)
  /\ Len(vizOut.data) = 2
  /\ vizOut.data[1].date = ISODate(vizIn[2].created_utc)

(***************************************************************************)
(* Properties of the auto-refresh timer and of the fetches that events     *)
(* cause, checked under SpecRefresh and Spec.                              *)
(***************************************************************************)
\* the request of call c is a live search
LiveRequest(c) == c.req.endpoint = "/search"

\* C31: a successful fetch starts an auto-refresh timer exactly when its own
\* request was a live search and searchOptions.autoRefresh was true for it;
\* in particular a successful listing fetch starts none, and the first
\* successful live-search fetch with autoRefresh enabled starts one.
C31_TimerIffLiveRequest ==
  [][\A c \in calls :
       (lastEvent'.type = "applied" /\ lastEvent'.seq = c.seq)
         => ((timersMade' > timersMade) <=> (LiveRequest(c) /\ c.autoRefresh))]_vars

\* C32: a change of the search input changes the searchTerm of filters and
\* issues no posts request: no call of fetchPosts is made by the step that
\* changes filters.searchTerm.
C32_TypingIssuesNoRequest ==
  [][filters'.searchTerm # filters.searchTerm => (issued' = issued /\ calls' = calls)]_vars

(***************************************************************************)
(* Property of the saved filters, checked under SpecSaved.                 *)
(***************************************************************************)
\* C33: after a filter was saved from a view and later applied from the
\* panel, the filters of the App are the filters of the view that was saved,
\* and the apply has issued a fetch with those filters.
C33_SavedFilterRoundTrip ==
  savedOut.phase = "applied"
    => /\ savedOut.filters = savedIn.saved.filters
       /\ \E req \in savedOut.requests :
            \E so \in {v.searchOptions : v \in SavedViews} :
              \E sc \in {v.sortConfig : v \in SavedViews} :
                req = BuildRequest(savedIn.saved.filters, so, sc, 1, 10, TRUE)

(***************************************************************************)
(* Properties of the Append requests, checked under SpecPages.             *)
(***************************************************************************)
\* the offset a listing request asks for: the server starts at 0 without one
OffsetOf(req) == IF "offset" \in DOMAIN req.params THEN req.params["offset"] ELSE "0"

\* the calls made by the step
CallsMade == calls' \ calls

\* C34: every Append request in listing mode asks for the page that follows
\* the pages held: when the collection holds whole pages, its offset is the
\* number of pages applied since the last Reset times pageSize, which is the
\* number of posts held.
C34_AppendAsksNextPage ==
  [][\A c \in CallsMade :
       (~c.resetPage /\ c.req.endpoint = "/posts" /\ Len(posts) % c.pageSize = 0)
         => OffsetOf(c.req) = ToString(Len(posts))]_vars

\* C35: applying a successful Append issues no fetch: the step in which the
\* response of an Append call is applied makes no call of fetchPosts, so the
\* appended posts stay until a later event asks for a Reset.
C35_AppendCausesNoFetch ==
  [][(lastEvent'.type = "applied" /\ ~lastEvent'.reset) => CallsMade = {}]_vars

\* C36: in every state of the session a non-null currentUser implies that a
\* token is persisted in localStorage.
C36_UserImpliesToken == currentUser # NoUser => authToken # NoToken

\* C37: once logout has set currentUser to null, the answer to an operation
\* that was in flight at the logout leaves it null: no continuation of an
\* authenticated operation turns a null currentUser into a user.
C37_LogoutIsFinal ==
  [][(authEvent'.type = "answered" /\ currentUser = NoUser) => currentUser' = NoUser]_vars

(***************************************************************************)
(* Property of enhancedFetch for every retries argument, checked under     *)
(* SpecRetries.                                                            *)
(***************************************************************************)
\* the call has ended: it returned the body of its last answer, or it threw
Ended ==
  \/ /\ efCall.status = "returned"
     /\ Len(efLog) > 0
     /\ efLog[Len(efLog)].class = "ok"
  \/ efCall.status = "thrown"

C39_EffectReachesFetch ==
  [][(SessionOpened /\ mounted) => (lastEvent'.type # "effect error" /\ CallsMade # {})]_vars

=============================================================================
